---- MODULE Spec2Model ----
(***************************************************************************)
(* HomeBooks: bank-statement ingestion.  A model of the persisted job      *)
(* queue and its worker (internal/jobs, database/jobs.go), of the          *)
(* transaction-record store with the manual review actions and the         *)
(* auto-matcher (database/bank_transactions.go, reconciliation/matcher.go),*)
(* and of the statement parser with the parse job handler                  *)
(* (internal/parser/tdbank.go, internal/jobs/parse_statement.go).          *)
(*                                                                         *)
(* Specifications sharing the module:                                      *)
(*   SpecQueue   the jobs table, claimants and processJob;                 *)
(*   SpecMatch   one document's records, the expense ledger, AutoMatch and *)
(*               the review actions;                                       *)
(*   SpecParse   the parser and the parse handler run repeatedly on one    *)
(*               document;                                                 *)
(*   SpecText    Parse on statements of one dated line and on check tables;*)
(*   SpecBlocks  Parse on the two multi-line sections;                     *)
(*   SpecWorker  the one worker on the parse jobs of a document, with      *)
(*               reparse requests, extractor hangs and Worker.Stop;        *)
(*   SpecLive    the worker with every handler invocation returning;       *)
(*   SpecUpload  uploads of statements;                                    *)
(*   SpecPool    one run of AutoMatch on a parsed statement;               *)
(*   SpecFrame   one run of AutoMatch with review requests served before it.*)
(* Variables a specification does not use keep their initial value.        *)
(***************************************************************************)
EXTENDS Integers, Sequences, FiniteSets, TLC

VARIABLES
    \* ---- jobs table and worker(s) ----
    jobs,       \* the jobs table: sequence of rows, index = id
    shared,     \* connections holding SQLite's SHARED lock inside a transaction
    reserved,   \* the connection holding RESERVED (0: none)
    wpc,        \* per claimant: position in Worker.Start / ClaimNextJob / processJob
    wjob,       \* per claimant: the models.Job value ClaimNextJob scanned
    claims,     \* history: per job, how many times ClaimNextJob returned it
    errs,       \* history: per job, how many times its handler returned an error
    lastErr,    \* history: per job, the error text of the last failed attempt
    \* ---- one document (bank_reconciliations row) and the ledger ----
    pdfText,    \* the text pdftotext extracts from the document's file
    doc,        \* the document's row: statementDate, status (in SpecWorker
                \* also parseJobId and parsedAt, 0 for NULL)
    txns,       \* bank_transactions rows of the document, in id order
    lastTxnId,  \* AUTOINCREMENT: the largest id bank_transactions ever used
    expenses,   \* the expenses table joined with vendors: rows, index = id
    hpc,        \* position of the parse handler (ParseStatementHandler)
    toInsert,   \* the handler's result.Transactions still to insert
    am,         \* AutoMatch's locals: transactions and expenses still to visit
    runs,       \* how many times the handler has started on the document
    hist,       \* history: the result of every Parse call and the records
                \* stored when a run completed
    \* ---- the application: uploaded documents, the worker's life cycle ----
    recons,     \* bank_reconciliations, the statement_date of every row in
                \* id order (doc is the one row the handler, the matcher
                \* and the worker are followed on)
    stopCh,     \* Worker.stop: "open" or "closed"
    doneCh,     \* Worker.done: "open" or "closed"
    mainpc      \* the goroutine that calls Worker.Stop: "serving", then
                \* "waiting" (blocked in <-w.done), then "stopped"

queueVars == <<jobs, shared, reserved, wpc, wjob, claims, errs, lastErr>>
docVars == <<pdfText, doc, txns, lastTxnId, expenses, hpc, toInsert, am, runs, hist>>
appVars == <<recons, stopCh, doneCh, mainpc>>
vars == <<queueVars, docVars, appVars>>

(***************************************************************************)
(* Bounds of the model                                                     *)
(***************************************************************************)
NumClaimants == 2
MaxJobs == 2

(***************************************************************************)
(* Program constants                                                       *)
(***************************************************************************)
DefaultMaxAttempts == 3

Claimants == 1..NumClaimants
NoJob == [id |-> 0, attempts |-> 0, maxAttempts |-> 0, jobType |-> ""]
HandlerErrors == {"parse PDF: extract text", "context deadline exceeded"}
ResultOK == "{transactions_count}"

\* worker.Register("parse_statement", ...) is the only registration.
Handlers == {"parse_statement"}

\* handler, ok := w.handlers[job.JobType]; the handler starts when ok.  (Every
\* job CreateJob is called for has the registered type "parse_statement".)
HandlerRegistered(job) == job.jobType \in Handlers

\* main: NewWorker (both channels open), Register, Start.
AppStarted ==
    /\ stopCh = "open"
    /\ doneCh = "open"
    /\ mainpc = "serving"

\* No document has been uploaded: the document tables are empty.
NoAutoMatch == [transactions |-> <<>>, expenses |-> <<>>]
NoHistory == [parses |-> <<>>, stored |-> <<>>]
NoDocument ==
    /\ pdfText = <<>>
    /\ doc = <<>>
    /\ txns = <<>>
    /\ lastTxnId = 0
    /\ expenses = <<>>
    /\ hpc = "none"
    /\ toInsert = <<>>
    /\ am = NoAutoMatch
    /\ runs = 0
    /\ hist = NoHistory

(***************************************************************************)
(* jobs table                                                              *)
(***************************************************************************)
JobIds == 1..Len(jobs)

\* created_at DEFAULT CURRENT_TIMESTAMP has one-second resolution: a new row is
\* stamped with the second of the newest row or with a later one (only the
\* order and the ties of the stamps matter, so "later" is the next integer).
Now == IF jobs = <<>> THEN {1}
       ELSE {jobs[Len(jobs)].createdAt, jobs[Len(jobs)].createdAt + 1}

\* INSERT INTO jobs (job_type, payload): every other column takes its default.
NewJobRow(jobType, now) ==
    [jobType |-> jobType, status |-> "pending", progress |-> 0, result |-> "",
     attempts |-> 0, maxAttempts |-> DefaultMaxAttempts, createdAt |-> now]

\* An autocommit statement needs the write lock: it waits (busy handler) while
\* another connection holds RESERVED or is still reading inside a transaction.
CanWrite == reserved = 0 /\ shared = {}

\* SELECT ... WHERE status = 'pending' ORDER BY created_at ASC LIMIT 1:
\* the rows the query may return (rows with equal created_at are in no
\* defined order).
PendingNoFilter == JobIds
Pending == {j \in JobIds : jobs[j].status = "pending"}
OldestPending ==
    {j \in Pending : \A k \in Pending : jobs[j].createdAt <= jobs[k].createdAt}

\* CreateJob: an autocommit INSERT.
CreateJob ==
    /\ Len(jobs) < MaxJobs
    /\ CanWrite
    /\ \E t \in Handlers, now \in Now : jobs' = Append(jobs, NewJobRow(t, now))
    /\ claims' = Append(claims, 0)
    /\ errs' = Append(errs, 0)
    /\ lastErr' = Append(lastErr, "")
    /\ UNCHANGED <<shared, reserved, wpc, wjob, docVars, appVars>>

(***************************************************************************)
(* ClaimNextJob, one statement of the transaction at a time                *)
(***************************************************************************)
\* tx.QueryRow(...).Scan finds no row: return nil, nil; the worker sleeps.
ClaimNone(w) ==
    /\ wpc[w] = "idle"
    /\ Pending = {}
    /\ UNCHANGED vars

\* db.Begin + tx.QueryRow(...).Scan: the transaction takes SHARED and keeps it.
ClaimSelectNoTx(w) ==
    /\ wpc[w] = "idle"
    /\ \E j \in OldestPending :
         wjob' = [wjob EXCEPT ![w] =
                    [id |-> j, attempts |-> jobs[j].attempts,
                     maxAttempts |-> jobs[j].maxAttempts, jobType |-> jobs[j].jobType]]
    /\ wpc' = [wpc EXCEPT ![w] = "selected"]
    /\ UNCHANGED <<jobs, shared, reserved, claims, errs, lastErr, docVars, appVars>>

ClaimSelectAnyStatus(w) ==
    /\ wpc[w] = "idle"
    /\ \E j \in PendingNoFilter :
         wjob' = [wjob EXCEPT ![w] =
                    [id |-> j, attempts |-> jobs[j].attempts,
                     maxAttempts |-> jobs[j].maxAttempts, jobType |-> jobs[j].jobType]]
    /\ wpc' = [wpc EXCEPT ![w] = "selected"]
    /\ shared' = shared \cup {w}
    /\ UNCHANGED <<jobs, reserved, claims, errs, lastErr, docVars, appVars>>

ClaimSelect(w) ==
    /\ wpc[w] = "idle"
    /\ \E j \in OldestPending :
         wjob' = [wjob EXCEPT ![w] =
                    [id |-> j, attempts |-> jobs[j].attempts,
                     maxAttempts |-> jobs[j].maxAttempts, jobType |-> jobs[j].jobType]]
    /\ wpc' = [wpc EXCEPT ![w] = "selected"]
    /\ shared' = shared \cup {w}
    /\ UNCHANGED <<jobs, reserved, claims, errs, lastErr, docVars, appVars>>

\* tx.Exec(UPDATE ...): the transaction asks for RESERVED.
ClaimUpdate(w) ==
    /\ wpc[w] = "selected"
    /\ reserved = 0
    /\ reserved' = w
    /\ wpc' = [wpc EXCEPT ![w] = "updated"]
    /\ UNCHANGED <<jobs, shared, wjob, claims, errs, lastErr, docVars, appVars>>

\* Another connection holds RESERVED: a reader asking to write gets SQLITE_BUSY
\* at once; "claim job" error, deferred tx.Rollback, the worker sleeps.
ClaimUpdateBusy(w) ==
    /\ wpc[w] = "selected"
    /\ reserved # 0
    /\ shared' = shared \ {w}
    /\ wpc' = [wpc EXCEPT ![w] = "idle"]
    /\ wjob' = [wjob EXCEPT ![w] = NoJob]
    /\ UNCHANGED <<jobs, reserved, claims, errs, lastErr, docVars, appVars>>

\* tx.Commit: waits until no other connection reads, then the UPDATE
\* (status = 'running', attempts = attempts + 1 WHERE id = ?) becomes visible;
\* the returned Job is the scanned row with Status, StartedAt, Attempts++ set.
\* Worker.Start hands it to processJob, which looks the handler up and runs it.
ClaimCommit(w) ==
    /\ wpc[w] = "updated"
    /\ shared \ {w} = {}
    /\ LET j == wjob[w].id IN
         /\ jobs' = [jobs EXCEPT ![j].status = "running",
                                 ![j].attempts = jobs[j].attempts + 1]
         /\ claims' = [claims EXCEPT ![j] = claims[j] + 1]
    /\ wjob' = [wjob EXCEPT ![w].attempts = wjob[w].attempts + 1]
    /\ shared' = shared \ {w}
    /\ reserved' = 0
    /\ HandlerRegistered(wjob[w])
    /\ wpc' = [wpc EXCEPT ![w] = "handler"]
    /\ UNCHANGED <<errs, lastErr, docVars, appVars>>

(***************************************************************************)
(* Worker.processJob                                                       *)
(***************************************************************************)
\* db.UpdateJobProgress(job.ID, p) at a milestone of the handler.
ProgressMilestones == {50}
HandlerProgress(w) ==
    /\ wpc[w] = "handler"
    /\ CanWrite
    /\ \E p \in ProgressMilestones :
         /\ p > jobs[wjob[w].id].progress
         /\ jobs' = [jobs EXCEPT ![wjob[w].id].progress = p]
    /\ UNCHANGED <<shared, reserved, wpc, wjob, claims, errs, lastErr, docVars, appVars>>

\* UPDATE jobs SET status = 'completed', progress = 100, result = ? WHERE id = ?
CompleteJobSkipped(rows, id, result) == rows
CompleteJob(rows, id, result) ==
    [rows EXCEPT ![id].status = "completed", ![id].progress = 100,
                 ![id].result = result]

\* The handler's last statements (UpdateJobProgress(100), CompleteJob, return
\* nil), then processJob logs and returns to the loop.
HandlerSucceed(w) ==
    /\ wpc[w] = "handler"
    /\ CanWrite
    /\ jobs' = CompleteJob(jobs, wjob[w].id, ResultOK)
    /\ wpc' = [wpc EXCEPT ![w] = "idle"]
    /\ wjob' = [wjob EXCEPT ![w] = NoJob]
    /\ UNCHANGED <<shared, reserved, claims, errs, lastErr, docVars, appVars>>

\* UPDATE jobs SET status = 'failed', result = ? WHERE id = ?
FailJob(rows, id, errMsg) ==
    [rows EXCEPT ![id].status = "failed", ![id].result = errMsg]

\* RetryJob leaving the row as it is
RetryJobKeepsRunning(rows, id) == rows

\* UPDATE jobs SET status = 'pending', started_at = NULL WHERE id = ?
RetryJob(rows, id) == [rows EXCEPT ![id].status = "pending"]

\* if job.Attempts >= job.MaxAttempts { FailJob(err.Error()) } else { RetryJob }
AfterErrorOffByOne(rows, job, errMsg) ==
    IF job.attempts > job.maxAttempts
      THEN FailJob(rows, job.id, errMsg)
      ELSE RetryJob(rows, job.id)
AfterError(rows, job, errMsg) ==
    IF job.attempts >= job.maxAttempts
      THEN FailJob(rows, job.id, errMsg)
      ELSE RetryJob(rows, job.id)

\* The handler returns an error e; processJob fails or retries the job and
\* returns to the loop.
HandlerFail(w) ==
    /\ wpc[w] = "handler"
    /\ CanWrite
    /\ \E e \in HandlerErrors :
         /\ jobs' = AfterError(jobs, wjob[w], e)
         /\ lastErr' = [lastErr EXCEPT ![wjob[w].id] = e]
    /\ errs' = [errs EXCEPT ![wjob[w].id] = errs[wjob[w].id] + 1]
    /\ wpc' = [wpc EXCEPT ![w] = "idle"]
    /\ wjob' = [wjob EXCEPT ![w] = NoJob]
    /\ UNCHANGED <<shared, reserved, claims, docVars, appVars>>

(***************************************************************************)
(* SpecQueue                                                               *)
(***************************************************************************)
QueueInit ==
    /\ jobs = <<>>
    /\ shared = {}
    /\ reserved = 0
    /\ wpc = [w \in Claimants |-> "idle"]
    /\ wjob = [w \in Claimants |-> NoJob]
    /\ claims = <<>>
    /\ errs = <<>>
    /\ lastErr = <<>>
    /\ NoDocument
    /\ recons = <<>>
    /\ AppStarted

QueueNext ==
    \/ CreateJob
    \/ \E w \in Claimants : ClaimNone(w)
    \/ \E w \in Claimants : ClaimSelect(w)
    \/ \E w \in Claimants : ClaimUpdate(w)
    \/ \E w \in Claimants : ClaimUpdateBusy(w)
    \/ \E w \in Claimants : ClaimCommit(w)
    \/ \E w \in Claimants : HandlerProgress(w)
    \/ \E w \in Claimants : HandlerSucceed(w)
    \/ \E w \in Claimants : HandlerFail(w)

SpecQueue == QueueInit /\ [][QueueNext]_vars

(***************************************************************************)
(* Properties of the queue                                                 *)
(***************************************************************************)
Holders(j) == {w \in Claimants : wpc[w] = "handler" /\ wjob[w].id = j}

\* C1 (claim exclusivity): whatever the interleaving of the claimants'
\* transactions, a job is held by at most one claimant at a time, every
\* successful claim is one increment of the persisted attempts, and the Job a
\* claimant received carries exactly the persisted number of attempts.
C1_ClaimExclusive ==
    \A j \in JobIds :
        /\ Cardinality(Holders(j)) <= 1
        /\ claims[j] = jobs[j].attempts
        /\ \A w \in Holders(j) :
             /\ wjob[w].attempts = jobs[j].attempts
             /\ jobs[j].status = "running"

\* Two claimants are inside ClaimNextJob for the same pending job at once.
C1_Witness ==
    \E w1, w2 \in Claimants :
        /\ w1 # w2
        /\ wpc[w1] = "updated"
        /\ wpc[w2] = "selected"
        /\ wjob[w1].id = wjob[w2].id

\* C2 (retry bound): a job none of whose attempts has succeeded is claimed at
\* most max_attempts times; it is pending again only after fewer than
\* max_attempts failed attempts, and failed only after exactly max_attempts
\* claims, each ended by a handler error, with the last error as its result.
C2_RetryBound ==
    \A j \in JobIds :
        jobs[j].status # "completed" =>
            /\ claims[j] <= jobs[j].maxAttempts
            /\ jobs[j].status = "pending" =>
                 errs[j] = claims[j] /\ claims[j] < jobs[j].maxAttempts
            /\ jobs[j].status = "running" => errs[j] = claims[j] - 1
            /\ jobs[j].status = "failed" =>
                 /\ claims[j] = jobs[j].maxAttempts
                 /\ errs[j] = jobs[j].maxAttempts
                 /\ jobs[j].result = lastErr[j]

\* A job has failed after its last allowed attempt.
C2_Witness ==
    \E j \in JobIds :
        /\ jobs[j].status = "failed"
        /\ claims[j] = DefaultMaxAttempts
        /\ jobs[j].result \in HandlerErrors

\* C3 (job state machine): a job's status changes only along
\* pending->running, running->completed, running->failed and running->pending,
\* the last only while attempts < max_attempts; a job is claimed only when it
\* is pending, so completed and failed are terminal.
JobEdges ==
    {<<"pending", "running">>, <<"running", "completed">>,
     <<"running", "failed">>, <<"running", "pending">>}

C3_JobStateMachine ==
    [][\A j \in JobIds :
          /\ jobs'[j].status # jobs[j].status =>
               /\ <<jobs[j].status, jobs'[j].status>> \in JobEdges
               /\ jobs'[j].status = "pending" =>
                    jobs[j].attempts < jobs[j].maxAttempts
          /\ claims'[j] # claims[j] =>
               jobs[j].status = "pending" /\ jobs'[j].status = "running"
          /\ jobs[j].status \in {"completed", "failed"} => jobs'[j] = jobs[j]
      ]_vars

\* One job has completed, another has failed, after a retry.
C3_Witness ==
    \E j, k \in JobIds :
        /\ jobs[j].status = "completed"
        /\ jobs[j].attempts > 1
        /\ jobs[k].status = "failed"

\* C4 (handler success completes the job): a job is running only while a
\* claimant is executing its handler, so a claimant whose handler returned
\* success, and which is back in the loop to claim again, left the job
\* completed with a result.
C4_SuccessCompletes ==
    \A j \in JobIds :
        /\ jobs[j].status = "running" => Holders(j) # {}
        /\ jobs[j].status = "completed" =>
             jobs[j].result = ResultOK /\ jobs[j].progress = 100

\* A handler has returned success and its claimant is claiming the next job.
C4_Witness ==
    \E j, k \in JobIds, w \in Claimants :
        /\ jobs[j].status = "completed"
        /\ wpc[w] = "selected"
        /\ wjob[w].id = k
        /\ claims[j] > 0

(***************************************************************************)
(* Strings.  A Go string is modelled as the sequence of its characters, so *)
(* that case folding, substring search and the vendor regexps are computed *)
(* on the text as the code computes them.                                  *)
(***************************************************************************)
UpperLetters == <<"A", "B", "C", "D", "E", "F", "G", "H", "I", "J", "K", "L", "M", "N", "O", "P", "Q", "R", "S", "T", "U", "V", "W", "X", "Y", "Z">>
LowerLetters == <<"a", "b", "c", "d", "e", "f", "g", "h", "i", "j", "k", "l", "m", "n", "o", "p", "q", "r", "s", "t", "u", "v", "w", "x", "y", "z">>
DigitChars == <<"0", "1", "2", "3", "4", "5", "6", "7", "8", "9">>

Range(s) == {s[i] : i \in 1..Len(s)}
IndexIn(c, s) == CHOOSE i \in 1..Len(s) : s[i] = c
UpperSet == Range(UpperLetters)
LowerSet == Range(LowerLetters)
DigitSet == Range(DigitChars)
IsUpper(c) == c \in UpperSet
IsLower(c) == c \in LowerSet
IsDigit(c) == c \in DigitSet
IsSpace(c) == c = " "
LowerOf == [c \in UpperSet |-> LowerLetters[IndexIn(c, UpperLetters)]]
UpperOf == [c \in LowerSet |-> UpperLetters[IndexIn(c, LowerLetters)]]

\* matcher.go toLower / strings.ToUpper, on ASCII text
toLower(s) == [i \in 1..Len(s) |-> IF IsUpper(s[i]) THEN LowerOf[s[i]] ELSE s[i]]
ToUpper(s) == [i \in 1..Len(s) |-> IF IsLower(s[i]) THEN UpperOf[s[i]] ELSE s[i]]

\* matcher.go containsLower / strings.Contains
containsLower(haystack, needle) ==
    \E i \in 0..(Len(haystack) - Len(needle)) :
        SubSeq(haystack, i + 1, i + Len(needle)) = needle

containsIgnoreCase(haystack, needle) ==
    /\ Len(needle) > 0
    /\ Len(haystack) >= Len(needle)
    /\ \/ haystack = needle
       \/ containsLower(toLower(haystack), toLower(needle))

\* strings.TrimSpace
RECURSIVE TrimLeft(_)
TrimLeft(s) == IF s # <<>> /\ IsSpace(Head(s)) THEN TrimLeft(Tail(s)) ELSE s
RECURSIVE TrimRight(_)
TrimRight(s) ==
    IF s # <<>> /\ IsSpace(s[Len(s)]) THEN TrimRight(SubSeq(s, 1, Len(s) - 1)) ELSE s
TrimSpace(s) == TrimRight(TrimLeft(s))

(***************************************************************************)
(* Dates.  A date "YYYY-MM-DD" is the triple <<y, m, d>>; the empty string  *)
(* is <<>>.  The order of the triples is the order of the strings.         *)
(***************************************************************************)
NoDate == <<>>
IsLeap(y) == (y % 4 = 0 /\ y % 100 # 0) \/ y % 400 = 0
DaysInMonth(y, m) ==
    IF m = 2 THEN (IF IsLeap(y) THEN 29 ELSE 28)
    ELSE IF m \in {4, 6, 9, 11} THEN 30 ELSE 31
RECURSIVE DaysBeforeMonth(_, _)
DaysBeforeMonth(y, m) ==
    IF m <= 1 THEN 0 ELSE DaysBeforeMonth(y, m - 1) + DaysInMonth(y, m - 1)

\* time.Parse("2006-01-02", s) as a day count (days since 0001-01-01)
DayNum(dt) ==
    LET y == dt[1] - 1 IN
    365 * y + (y \div 4) - (y \div 100) + (y \div 400)
        + DaysBeforeMonth(dt[1], dt[2]) + (dt[3] - 1)

\* s1 < s2 for two date strings
DateLess(a, b) ==
    \/ a[1] < b[1]
    \/ a[1] = b[1] /\ a[2] < b[2]
    \/ a[1] = b[1] /\ a[2] = b[2] /\ a[3] < b[3]

Abs(n) == IF n < 0 THEN -n ELSE n

(***************************************************************************)
(* The statement parser (internal/parser/tdbank.go).                       *)
(*                                                                         *)
(* pdftotext, truncateAtCheckImages, parseHeader and splitSections are not *)
(* modelled: a statement text is given as the period's year and month and  *)
(* the bodies of its six sections.  A section body is the sequence of its  *)
(* lines, each classified by the line regexps:                             *)
(*   kind "txn"   transactionLinePattern matched: date MM/DD, description  *)
(*                and amount text are the three groups;                    *)
(*   kind "cont"  continuationLinePattern matched: body is its group;      *)
(*   kind "other" neither matched.                                         *)
(* The checks section is the sequence of the checkPattern matches.         *)
(***************************************************************************)
TxnLine(mm, dd, desc, amount) ==
    [kind |-> "txn", mm |-> mm, dd |-> dd, desc |-> desc, amount |-> amount]
ContLine(body) == [kind |-> "cont", body |-> body]
OtherLine == [kind |-> "other"]
CheckEntry(mm, dd, serial, amount) ==
    [mm |-> mm, dd |-> dd, serial |-> serial, amount |-> amount]

\* parseAmount: drop "," and "$", strconv.ParseFloat; the value in cents.
RECURSIVE DigitsValue(_)
DigitsValue(s) ==
    IF s = <<>> THEN 0
    ELSE 10 * DigitsValue(SubSeq(s, 1, Len(s) - 1)) + (IndexIn(s[Len(s)], DigitChars) - 1)
NotSeparator(c) == c \notin {",", "$"}
parseAmount(s) ==
    LET t == SelectSeq(s, NotSeparator)
        dot == IndexIn(".", t)
    IN  100 * DigitsValue(SubSeq(t, 1, dot - 1)) + DigitsValue(SubSeq(t, dot + 1, Len(t)))

\* formatDate without the year boundary
formatDateNoBoundary(year, month, mm, dd) == <<year, mm, dd>>

\* formatDate: MM/DD to YYYY-MM-DD using the statement year and month
formatDate(year, month, mm, dd) ==
    IF month = 12 /\ mm = 1 THEN <<year + 1, mm, dd>>
    ELSE IF month = 1 /\ mm = 12 THEN <<year - 1, mm, dd>>
    ELSE <<year, mm, dd>>

\* vendorPatterns: vendor name -> regexp.  A regexp of the form
\* (?i)A\s*B|C is the set of its alternatives, an alternative the sequence of
\* its literals, between which \s* may match blanks.  (The two entries whose
\* regexps are not of this form, "Chef's Choice" and "AT&T", are left out; no
\* description of the model contains CHEF, ATT or AT&T.)
vendorPatterns ==
    { [vendor |-> <<"J", "e", "t", "r", "o">>, alts |-> {<<<<"J", "E", "T", "R", "O">>>>}],
      [vendor |-> <<"C", "o", "g", "e", "n", "t", " ", "W", "a", "s", "t", "e">>, alts |-> {<<<<"C", "O", "G", "E", "N", "T">>, <<"W", "A", "S", "T", "E">>>>}],
      [vendor |-> <<"C", "o", "n", " ", "E", "d", "i", "s", "o", "n">>, alts |-> {<<<<"C", "O", "N">>, <<"E", "D">>>>}],
      [vendor |-> <<"N", "a", "t", "i", "o", "n", "a", "l", " ", "G", "r", "i", "d">>, alts |-> {<<<<"N", "G", "R", "I", "D">>>>, <<<<"N", "A", "T", "I", "O", "N", "A", "L">>, <<"G", "R", "I", "D">>>>}],
      [vendor |-> <<"U", "b", "e", "r", " ", "E", "a", "t", "s">>, alts |-> {<<<<"U", "B", "E", "R">>>>}],
      [vendor |-> <<"G", "r", "u", "b", "h", "u", "b">>, alts |-> {<<<<"G", "R", "U", "B", "H", "U", "B">>>>}],
      [vendor |-> <<"D", "o", "o", "r", "D", "a", "s", "h">>, alts |-> {<<<<"D", "O", "O", "R", "D", "A", "S", "H">>>>}],
      [vendor |-> <<"V", "e", "r", "i", "z", "o", "n">>, alts |-> {<<<<"V", "E", "R", "I", "Z", "O", "N">>>>}],
      [vendor |-> <<"S", "a", "m", "p", "a", "r", "'", "s">>, alts |-> {<<<<"S", "A", "M", "P", "A", "R">>>>}],
      [vendor |-> <<"C", "l", "o", "v", "e", "r">>, alts |-> {<<<<"C", "L", "O", "V", "E", "R">>>>}],
      [vendor |-> <<"C", "i", "n", "t", "a", "s">>, alts |-> {<<<<"C", "I", "N", "T", "A", "S">>>>}],
      [vendor |-> <<"D", "i", "s", "h", " ", "N", "e", "t", "w", "o", "r", "k">>, alts |-> {<<<<"D", "I", "S", "H">>, <<"N", "E", "T", "W", "O", "R", "K">>>>}],
      [vendor |-> <<"B", "a", "n", "k", "c", "a", "r", "d">>, alts |-> {<<<<"B", "A", "N", "K", "C", "A", "R", "D">>, <<"M", "T", "O", "T">>>>}],
      [vendor |-> <<"G", "o", "b", "w", "a", " ", "E", "x", "o", "t", "i", "c">>, alts |-> {<<<<"G", "O", "B", "W", "A">>, <<"E", "X", "O", "T", "I", "C">>>>}],
      [vendor |-> <<"C", "a", "r", "i", "b", "b", "e", "a", "n", " ", "D", "e", "p", "o", "t">>, alts |-> {<<<<"C", "A", "R", "I", "B", "B", "E", "A", "N">>, <<"D", "E", "P", "O", "T">>>>}],
      [vendor |-> <<"C", "&", "S", " ", "M", "e", "a", "t", "s">>, alts |-> {<<<<"C">>, <<"A", "N", "D">>, <<"S">>, <<"M", "E", "A", "T", "S">>>>}],
      [vendor |-> <<"G", "o", "o", "d", " ", "F", "o", "o", "d">>, alts |-> {<<<<"G", "O", "O", "D">>, <<"F", "O", "O", "D">>, <<"F", "O", "R">>, <<"L", "E", "S", "S">>>>}],
      [vendor |-> <<"I", "N", "P", " ", "F", "o", "o", "d", "s">>, alts |-> {<<<<"I", "N", "P">>, <<"F", "O", "O", "D", "S">>>>}],
      [vendor |-> <<"W", "e", "g", "m", "a", "n", "s">>, alts |-> {<<<<"W", "E", "G", "M", "A", "N", "S">>>>}] }

\* the position after the blanks that start at p
RECURSIVE SkipSpaces(_, _)
SkipSpaces(s, p) == IF p <= Len(s) /\ IsSpace(s[p]) THEN SkipSpaces(s, p + 1) ELSE p

\* the literals match at position p of the upper-cased text, blanks between them
RECURSIVE MatchLiterals(_, _, _)
MatchLiterals(s, p, lits) ==
    IF lits = <<>> THEN TRUE
    ELSE LET q == SkipSpaces(s, p)
             n == Len(Head(lits))
         IN  /\ q + n - 1 <= Len(s)
             /\ SubSeq(s, q, q + n - 1) = Head(lits)
             /\ MatchLiterals(s, q + n, Tail(lits))

\* pattern.MatchString(description)
MatchString(pattern, description) ==
    LET upper == ToUpper(description) IN
    \E lits \in pattern.alts : \E p \in 1..Len(description) :
        MatchLiterals(upper, p, lits)

\* cityStatePattern: ([A-Z][A-Z0-9\s&']+?)\s+(?:[A-Z]+\s+)?\*\s*[A-Z]{2}
\* StarAt: \*\s*[A-Z]{2} matches at position p
StarAt(s, p) ==
    /\ p <= Len(s) /\ s[p] = "*"
    /\ LET q == SkipSpaces(s, p + 1) IN
         q + 1 <= Len(s) /\ IsUpper(s[q]) /\ IsUpper(s[q + 1])

RECURSIVE SkipUpper(_, _)
SkipUpper(s, p) == IF p <= Len(s) /\ IsUpper(s[p]) THEN SkipUpper(s, p + 1) ELSE p

\* TailAt: \s+(?:[A-Z]+\s+)?\*\s*[A-Z]{2} matches at position p
TailAt(s, p) ==
    /\ p <= Len(s) /\ IsSpace(s[p])
    /\ LET q == SkipSpaces(s, p)
           r == SkipUpper(s, q)
       IN  \/ StarAt(s, q)
           \/ r > q /\ r <= Len(s) /\ IsSpace(s[r]) /\ StarAt(s, SkipSpaces(s, r))

NameChar(c) == IsUpper(c) \/ IsDigit(c) \/ IsSpace(c) \/ c \in {"&", "'"}

\* group 1 may be s[i..i+k-1]
NameAt(s, i, k) ==
    /\ IsUpper(s[i])
    /\ \A j \in (i + 1)..(i + k - 1) : NameChar(s[j])
    /\ TailAt(s, i + k)

NameStarts(s) == {i \in 1..Len(s) : \E k \in 2..(Len(s) - i) : NameAt(s, i, k)}
Min(S) == CHOOSE x \in S : \A y \in S : x <= y

\* FindStringSubmatch: the leftmost match, its first group as short as possible
cityStateName(s) ==
    LET i == Min(NameStarts(s))
        k == Min({n \in 2..(Len(s) - i) : NameAt(s, i, n)})
    IN  SubSeq(s, i, i + k - 1)

\* ^(DBCRD|DEBIT|POS|AP|AUT|VISA|DDA|PUR)\s+ replaced by ""
CardPrefixes ==
    {<<"D", "B", "C", "R", "D">>, <<"D", "E", "B", "I", "T">>, <<"P", "O", "S">>, <<"A", "P">>, <<"A", "U", "T">>, <<"V", "I", "S", "A">>, <<"D", "D", "A">>, <<"P", "U", "R">>}
StripCardPrefix(v) ==
    IF \E pre \in CardPrefixes :
          /\ Len(v) > Len(pre)
          /\ SubSeq(v, 1, Len(pre)) = pre
          /\ IsSpace(v[Len(pre) + 1])
    THEN LET pre == CHOOSE pre \in CardPrefixes :
                        /\ Len(v) > Len(pre)
                        /\ SubSeq(v, 1, Len(pre)) = pre
                        /\ IsSpace(v[Len(pre) + 1])
         IN  SubSeq(v, SkipSpaces(v, Len(pre) + 1), Len(v))
    ELSE v

cityStateVendor(description) ==
    IF NameStarts(description) = {} THEN <<>>
    ELSE LET vendor == StripCardPrefix(TrimSpace(cityStateName(description)))
         IN  IF Len(vendor) > 3 THEN vendor ELSE <<>>

\* extractVendorHint: "for vendor, pattern := range vendorPatterns" visits the
\* map in an order the Go runtime picks anew for every loop, and returns at
\* the first pattern that matches: the values it may return.
extractVendorHint(description) ==
    LET matching == {vp \in vendorPatterns : MatchString(vp, description)}
    IN  IF matching # {} THEN {vp.vendor : vp \in matching}
        ELSE {cityStateVendor(description)}

\* categorizeTransaction
categorizeTransaction(txnType, description, amount) ==
    LET descUpper == ToUpper(description)
        Has(lit) == containsLower(descUpper, lit)
    IN  IF amount > 0 THEN
            IF Has(<<"B", "A", "N", "K", "C", "A", "R", "D">>) \/ Has(<<"M", "T", "O", "T", " ", "D", "E", "P">>) THEN "income_cards"
            ELSE IF Has(<<"U", "B", "E", "R">>) \/ Has(<<"G", "R", "U", "B", "H", "U", "B">>) \/ Has(<<"D", "O", "O", "R", "D", "A", "S", "H">>)
                 THEN "income_delivery"
            ELSE IF Has(<<"R", "E", "F", "U", "N", "D">>) \/ Has(<<"O", "D", " ", "G", "R", "A", "C", "E">>) \/ Has(<<"F", "E", "E", " ", "R", "E", "F", "U", "N", "D">>)
                 THEN "refund"
            ELSE "income_other"
        ELSE IF txnType = "check" THEN "expense_check"
        ELSE IF txnType = "fee" THEN "fee"
        ELSE IF Has(<<"O", "V", "E", "R", "D", "R", "A", "F", "T">>) THEN "fee"
        ELSE IF Has(<<"T", "R", "A", "N", "S", "F", "E", "R">>) \/ Has(<<"X", "F", "E", "R">>) THEN "transfer"
        ELSE IF Has(<<"A", "T", "M">>) THEN "atm"
        ELSE "expense"

\* A ParsedTransaction.  vendorHints is the set of values extractVendorHint
\* may have returned for it; Parse's result holds one of them (ParseResults).
ParsedTransaction(date, description, amount, txnType, category, checkNumber, hints) ==
    [postingDate |-> date, description |-> description, amount |-> amount,
     transactionType |-> txnType, category |-> category,
     checkNumber |-> checkNumber, vendorHints |-> hints]

IsTxnLine(l) == l.kind = "txn"

\* parseDeposits / parseCredits: one record per transaction line, amount positive
parseCreditLines(year, month, section, txnType) ==
    LET lines == SelectSeq(section, IsTxnLine)
        Rec(l) == LET desc == TrimSpace(l.desc)
                      amount == parseAmount(l.amount)
                  IN  ParsedTransaction(formatDate(year, month, l.mm, l.dd), desc, amount,
                                        txnType, categorizeTransaction(txnType, desc, amount),
                                        <<>>, extractVendorHint(desc))
    IN  [i \in 1..Len(lines) |-> Rec(lines[i])]
parseDeposits(year, month, section) == parseCreditLines(year, month, section, "deposit")
parseCredits(year, month, section) == parseCreditLines(year, month, section, "credit")

\* parseFees: one record per transaction line, amount negative, fixed category
\* and vendor hint
parseFees(year, month, section) ==
    LET lines == SelectSeq(section, IsTxnLine)
        Rec(l) == ParsedTransaction(formatDate(year, month, l.mm, l.dd), TrimSpace(l.desc),
                                    -parseAmount(l.amount), "fee", "fee", <<>>,
                                    {<<"T", "D", " ", "B", "a", "n", "k">>})
    IN  [i \in 1..Len(lines) |-> Rec(lines[i])]

\* checkPattern, group 2: (\d+)\*? applied to the serial cell of a check entry;
\* the asterisk that marks a break in the serial sequence is outside the group.
SerialGroupWithStar(serial) == serial
SerialGroup(serial) ==
    IF serial # <<>> /\ serial[Len(serial)] = "*"
      THEN SubSeq(serial, 1, Len(serial) - 1)
      ELSE serial

\* parseChecks: one record per serial number, the first match of a serial wins
RECURSIVE parseCheckEntries(_, _, _, _, _)
parseCheckEntries(year, month, matches, seen, transactions) ==
    IF matches = <<>> THEN transactions
    ELSE LET m == Head(matches)
             checkNum == SerialGroup(m.serial)
         IN  IF checkNum \in seen
               THEN parseCheckEntries(year, month, Tail(matches), seen, transactions)
               ELSE parseCheckEntries(year, month, Tail(matches), seen \cup {checkNum},
                        Append(transactions,
                               ParsedTransaction(formatDate(year, month, m.mm, m.dd),
                                                 <<"C", "h", "e", "c", "k", " ", "#">> \o checkNum,
                                                 -parseAmount(m.amount), "check",
                                                 "expense_check", checkNum, {<<>>})))
parseChecks(year, month, section) == parseCheckEntries(year, month, section, {}, <<>>)

\* finalizeTransaction
finalizeTransaction(txn) ==
    [txn EXCEPT !.category = categorizeTransaction(txn.transactionType, txn.description,
                                                   txn.amount),
                !.vendorHints = extractVendorHint(txn.description)]

\* ^\d{16}$
IsCardNumber(s) == Len(s) = 16 /\ \A i \in 1..Len(s) : IsDigit(s[i])

\* parsePayments / parseWithdrawals: a transaction line opens a record, the
\* continuation lines after it are appended to its description; only
\* parsePayments skips a continuation that is a 16-digit card number.
\* currentTxn is <<>> (nil) or <<txn>>.
RECURSIVE parseBlocks(_, _, _, _, _, _, _)
parseBlocks(year, month, lines, currentTxn, transactions, txnType, skipCardNumbers) ==
    IF lines = <<>>
      THEN IF currentTxn # <<>>
             THEN Append(transactions, finalizeTransaction(currentTxn[1]))
             ELSE transactions
    ELSE LET line == Head(lines) IN
      IF line.kind = "txn"
        THEN parseBlocks(year, month, Tail(lines),
                 <<ParsedTransaction(formatDate(year, month, line.mm, line.dd),
                                     TrimSpace(line.desc), -parseAmount(line.amount),
                                     txnType, "", <<>>, {})>>,
                 IF currentTxn # <<>>
                   THEN Append(transactions, finalizeTransaction(currentTxn[1]))
                   ELSE transactions,
                 txnType, skipCardNumbers)
      ELSE IF currentTxn # <<>> /\ line.kind = "cont"
        THEN LET continuation == TrimSpace(line.body) IN
             IF skipCardNumbers /\ IsCardNumber(continuation)
               THEN parseBlocks(year, month, Tail(lines), currentTxn, transactions,
                                txnType, skipCardNumbers)
               ELSE parseBlocks(year, month, Tail(lines),
                        <<[currentTxn[1] EXCEPT !.description = @ \o <<" ">> \o continuation]>>,
                        transactions, txnType, skipCardNumbers)
      ELSE parseBlocks(year, month, Tail(lines), currentTxn, transactions,
                       txnType, skipCardNumbers)
parsePayments(year, month, section) ==
    parseBlocks(year, month, section, <<>>, <<>>, "debit", TRUE)
parseWithdrawals(year, month, section) ==
    parseBlocks(year, month, section, <<>>, <<>>, "withdrawal", FALSE)

\* Parse: the records of the six sections, in this order
Parse(text) ==
    parseDeposits(text.year, text.month, text.deposits)
      \o parseCredits(text.year, text.month, text.credits)
      \o parseChecks(text.year, text.month, text.checks)
      \o parsePayments(text.year, text.month, text.payments)
      \o parseWithdrawals(text.year, text.month, text.withdrawals)
      \o parseFees(text.year, text.month, text.fees)

\* One result of Parse: every record with one of its possible vendor hints.
WithHint(txn, hint) ==
    [postingDate |-> txn.postingDate, description |-> txn.description,
     amount |-> txn.amount, transactionType |-> txn.transactionType,
     category |-> txn.category, checkNumber |-> txn.checkNumber, vendorHint |-> hint]
AllHints(parsed) == UNION {parsed[i].vendorHints : i \in 1..Len(parsed)}
ParseResults(text) ==
    LET parsed == Parse(text)
        n == Len(parsed)
    IN  {[i \in 1..n |-> WithHint(parsed[i], h[i])] :
            h \in {g \in [1..n -> AllHints(parsed)] :
                      \A i \in 1..n : g[i] \in parsed[i].vendorHints}}

\* The text of one statement
Statement(year, month, deposits, credits, checks, payments, withdrawals, fees) ==
    [year |-> year, month |-> month, deposits |-> deposits, credits |-> credits,
     checks |-> checks, payments |-> payments, withdrawals |-> withdrawals,
     fees |-> fees]

(***************************************************************************)
(* bank_transactions and expenses (database/bank_transactions.go,          *)
(* database/expenses.go).  NULL in matched_expense_id is 0.  The database  *)
(* is opened with foreign keys on: matched_expense_id must name an         *)
(* expense, and an expense a record names cannot be deleted.               *)
(***************************************************************************)
TxnIds == {txns[i].id : i \in 1..Len(txns)}
TxnRow(rows, id) == rows[CHOOSE i \in 1..Len(rows) : rows[i].id = id]
ExpenseIds == {e \in 1..Len(expenses) : expenses[e].live}

\* CreateBankTransaction, with the fields the handler fills in
CreateBankTransaction(rows, id, txn) ==
    Append(rows,
           [id |-> id, postingDate |-> txn.postingDate, description |-> txn.description,
            amount |-> txn.amount, transactionType |-> txn.transactionType,
            category |-> txn.category, checkNumber |-> txn.checkNumber,
            vendorHint |-> txn.vendorHint, matchedExpenseId |-> 0,
            matchStatus |-> "unmatched", matchConfidence |-> ""])

\* the foreign key of matched_expense_id accepts expenseID
ExpenseExists(exps, expenseID) ==
    expenseID \in 1..Len(exps) /\ exps[expenseID].live

\* MatchBankTransaction: the UPDATE fails when the expense does not exist
MatchBankTransaction(rows, exps, txnID, expenseID, confidence) ==
    IF ~ExpenseExists(exps, expenseID) THEN rows
    ELSE [i \in 1..Len(rows) |->
            IF rows[i].id = txnID
              THEN [rows[i] EXCEPT !.matchedExpenseId = expenseID,
                                   !.matchStatus = "matched",
                                   !.matchConfidence = confidence]
              ELSE rows[i]]

\* IgnoreBankTransaction: SET match_status = 'ignored', notes, matched_at
IgnoreBankTransaction(rows, txnID) ==
    [i \in 1..Len(rows) |->
        IF rows[i].id = txnID THEN [rows[i] EXCEPT !.matchStatus = "ignored"]
        ELSE rows[i]]

\* MarkBankTransactionCreated
MarkBankTransactionCreated(rows, exps, txnID, expenseID) ==
    IF ~ExpenseExists(exps, expenseID) THEN rows
    ELSE [i \in 1..Len(rows) |->
            IF rows[i].id = txnID
              THEN [rows[i] EXCEPT !.matchedExpenseId = expenseID,
                                   !.matchStatus = "created",
                                   !.matchConfidence = "created"]
              ELSE rows[i]]

\* UnmatchBankTransaction
UnmatchBankTransaction(rows, txnID) ==
    [i \in 1..Len(rows) |->
        IF rows[i].id = txnID
          THEN [rows[i] EXCEPT !.matchedExpenseId = 0, !.matchStatus = "unmatched",
                               !.matchConfidence = ""]
          ELSE rows[i]]

\* UpdateBankTransactionTypeAndSign: the three UPDATE statements
UpdateBankTransactionTypeAndSign(rows, txnID, txnType, shouldBePositive) ==
    [i \in 1..Len(rows) |->
        IF rows[i].id # txnID THEN rows[i]
        ELSE IF txnType = "deposit"
          THEN [rows[i] EXCEPT !.transactionType = txnType, !.amount = Abs(@),
                               !.matchStatus = "matched", !.matchConfidence = "deposit"]
        ELSE IF shouldBePositive
          THEN [rows[i] EXCEPT !.transactionType = txnType, !.amount = Abs(@),
                               !.matchStatus = "unmatched", !.matchedExpenseId = 0,
                               !.matchConfidence = ""]
        ELSE [rows[i] EXCEPT !.transactionType = txnType, !.amount = -Abs(@),
                             !.matchStatus = "unmatched", !.matchedExpenseId = 0,
                             !.matchConfidence = ""]]

\* DeleteBankTransactions
DeleteBankTransactions(rows) == <<>>

\* CreateExpense: the new row (its id is its index)
NewExpense(date, vendorName, amount, status, checkNumber, datePaid) ==
    [date |-> date, vendorName |-> vendorName, amount |-> amount, status |-> status,
     checkNumber |-> checkNumber, datePaid |-> datePaid, live |-> TRUE]

\* DeleteExpense: refused by the foreign key while a record names the expense
DeleteExpense(exps, rows, id) ==
    IF \E i \in 1..Len(rows) : rows[i].matchedExpenseId = id THEN exps
    ELSE [exps EXCEPT ![id].live = FALSE]

\* ORDER BY posting_date, id
RowBefore(a, b) ==
    \/ DateLess(a.postingDate, b.postingDate)
    \/ a.postingDate = b.postingDate /\ a.id < b.id
RECURSIVE SortedRows(_)
SortedRows(S) ==
    IF S = {} THEN <<>>
    ELSE LET first == CHOOSE r \in S : \A o \in S \ {r} : RowBefore(r, o)
         IN  <<first>> \o SortedRows(S \ {first})

\* the list without the WHERE clause on match_status
GetBankTransactionsNoFilter(rows) ==
    SortedRows({rows[i] : i \in 1..Len(rows)})

\* GetUnmatchedBankTransactions
GetUnmatchedBankTransactions(rows) ==
    SortedRows({rows[i] : i \in {j \in 1..Len(rows) : rows[j].matchStatus = "unmatched"}})

\* ListExpensesDateRange: WHERE e.date >= ? AND e.date <= ? ORDER BY e.date DESC.
\* Rows with the same date come in any order: the lists the query may return.
\* (A listed expense carries its id.)
ExpenseOrders(S) ==
    {s \in [1..Cardinality(S) -> S] :
        /\ \A i, j \in 1..Cardinality(S) : i # j => s[i] # s[j]
        /\ \A i, j \in 1..Cardinality(S) : i < j => ~DateLess(s[i].date, s[j].date)}
ListExpensesDateRange(exps, startDay, endDay) ==
    ExpenseOrders({[id |-> e, date |-> exps[e].date, vendorName |-> exps[e].vendorName,
                    amount |-> exps[e].amount, status |-> exps[e].status,
                    checkNumber |-> exps[e].checkNumber, datePaid |-> exps[e].datePaid] :
                   e \in {x \in 1..Len(exps) :
                            /\ exps[x].live
                            /\ DayNum(exps[x].date) >= startDay
                            /\ DayNum(exps[x].date) <= endDay}})

(***************************************************************************)
(* reconciliation.AutoMatch                                                *)
(***************************************************************************)
\* isExpenseMatched answering false for every expense
isExpenseMatchedNever(rows, expenseID) == FALSE

\* isExpenseMatched: some record of the document names the expense
isExpenseMatched(rows, expenseID) ==
    \E i \in 1..Len(rows) : rows[i].matchedExpenseId = expenseID

\* strategy 1: both check numbers non-empty and equal
CheckNumberMatch(txn, exp) ==
    txn.checkNumber # <<>> /\ exp.checkNumber # <<>> /\ txn.checkNumber = exp.checkNumber

\* strategy 2 with a tolerance of one cent on the amount
AmountDateMatchTolerance(txn, exp) ==
    /\ Abs(Abs(txn.amount) - exp.amount) <= 1
    /\ exp.datePaid # NoDate
    /\ Abs(DayNum(txn.postingDate) - DayNum(exp.datePaid)) <= 3

\* strategy 2: equal amount, date paid within 3 days of the posting date (an
\* empty date paid parses to the zero time, which is not within 3 days)
AmountDateMatch(txn, exp) ==
    /\ Abs(txn.amount) = exp.amount
    /\ exp.datePaid # NoDate
    /\ Abs(DayNum(txn.postingDate) - DayNum(exp.datePaid)) <= 3

\* strategy 3: equal amount, vendor hint contained in the vendor name
AmountVendorMatch(txn, exp) ==
    /\ Abs(txn.amount) = exp.amount
    /\ txn.vendorHint # <<>>
    /\ containsIgnoreCase(exp.vendorName, txn.vendorHint)

\* the inner loop "for _, exp := range expenses": the records after it
RECURSIVE tryExpenses(_, _, _, _)
tryExpenses(rows, exps, txn, candidates) ==
    IF candidates = <<>> THEN rows
    ELSE LET exp == Head(candidates) IN
         IF exp.status # "paid" THEN tryExpenses(rows, exps, txn, Tail(candidates))
         ELSE IF isExpenseMatched(rows, exp.id)
           THEN tryExpenses(rows, exps, txn, Tail(candidates))
         ELSE IF CheckNumberMatch(txn, exp) /\ ExpenseExists(exps, exp.id)
           THEN MatchBankTransaction(rows, exps, txn.id, exp.id, "auto_exact")
         ELSE IF AmountDateMatch(txn, exp) /\ ExpenseExists(exps, exp.id)
           THEN MatchBankTransaction(rows, exps, txn.id, exp.id, "auto_fuzzy")
         ELSE IF AmountVendorMatch(txn, exp) /\ ExpenseExists(exps, exp.id)
           THEN MatchBankTransaction(rows, exps, txn.id, exp.id, "auto_fuzzy")
         ELSE tryExpenses(rows, exps, txn, Tail(candidates))

\* the iteration without the two skips
matchTransactionNoSkip(rows, exps, txn, candidates) ==
    tryExpenses(rows, exps, txn, candidates)

\* one iteration of "for _, txn := range transactions"
matchTransaction(rows, exps, txn, candidates) ==
    IF txn.amount >= 0 THEN rows
    ELSE IF txn.transactionType = "fee" THEN rows
    ELSE tryExpenses(rows, exps, txn, candidates)

\* the statement month with 7 days before and after, as day numbers
RangeStart(statementDate) == DayNum(<<statementDate[1], statementDate[2], 1>>) - 7
RangeEnd(statementDate) ==
    DayNum(<<statementDate[1], statementDate[2],
             DaysInMonth(statementDate[1], statementDate[2])>>) + 7

\* AutoMatch up to its loop: the two lists are read
AutoMatchBegin ==
    /\ hpc = "automatch"
    /\ \E candidates \in ListExpensesDateRange(expenses, RangeStart(doc.statementDate),
                                               RangeEnd(doc.statementDate)) :
         am' = [transactions |-> GetUnmatchedBankTransactions(txns),
                expenses |-> candidates]
    /\ hpc' = "matching"
    /\ UNCHANGED <<pdfText, doc, txns, lastTxnId, expenses, toInsert, runs, hist, queueVars, appVars>>

\* one record of the outer loop
AutoMatchStep ==
    /\ hpc = "matching"
    /\ am.transactions # <<>>
    /\ txns' = matchTransaction(txns, expenses, Head(am.transactions), am.expenses)
    /\ am' = [am EXCEPT !.transactions = Tail(@)]
    /\ UNCHANGED <<pdfText, doc, lastTxnId, expenses, hpc, toInsert, runs, hist, queueVars, appVars>>

\* the parsed fields of the stored records, in id order
ParsedFields(rows) ==
    [i \in 1..Len(rows) |->
        [postingDate |-> rows[i].postingDate, description |-> rows[i].description,
         amount |-> rows[i].amount, transactionType |-> rows[i].transactionType,
         category |-> rows[i].category, checkNumber |-> rows[i].checkNumber,
         vendorHint |-> rows[i].vendorHint]]

\* AutoMatch returns; the handler marks the document parsed, completes the
\* job and returns nil.
AutoMatchEnd ==
    /\ hpc = "matching"
    /\ am.transactions = <<>>
    /\ am' = NoAutoMatch
    /\ doc' = [doc EXCEPT !.status = "parsed"]
    /\ hpc' = "idle"
    /\ hist' = [hist EXCEPT !.stored = Append(@, ParsedFields(txns))]
    /\ UNCHANGED <<pdfText, txns, lastTxnId, expenses, toInsert, runs, queueVars, appVars>>

(***************************************************************************)
(* The review actions (handlers ReconciliationsMatch, ...Unmatch,          *)
(* ...Ignore, ...CreateExpense, ...UpdateType).  The review page shows a   *)
(* parsed document: a review action is taken between runs of the handler.  *)
(***************************************************************************)
MaxExpenses == 2

\* transaction_type values a review form posts
UpdateTypes == {"deposit", "ach", "credit"}
\* vendors the create-expense form offers
VendorNames == {<<"J", "e", "t", "r", "o", " ", "C", "a", "s", "h">>}

ReconciliationsMatch(t, e) ==
    /\ hpc = "idle"
    /\ txns' = MatchBankTransaction(txns, expenses, t, e, "manual")
    /\ UNCHANGED <<pdfText, doc, lastTxnId, expenses, hpc, toInsert, am, runs, hist, queueVars, appVars>>

ReconciliationsUnmatch(t) ==
    LET txn == TxnRow(txns, t)
        exps == IF txn.matchStatus = "created" /\ txn.matchedExpenseId # 0
                  THEN DeleteExpense(expenses, txns, txn.matchedExpenseId)
                  ELSE expenses
    IN  /\ hpc = "idle"
        /\ expenses' = exps
        /\ txns' = UnmatchBankTransaction(txns, t)
        /\ UNCHANGED <<pdfText, doc, lastTxnId, hpc, toInsert, am, runs, hist, queueVars, appVars>>

ReconciliationsIgnore(t) ==
    /\ hpc = "idle"
    /\ txns' = IgnoreBankTransaction(txns, t)
    /\ UNCHANGED <<pdfText, doc, lastTxnId, expenses, hpc, toInsert, am, runs, hist, queueVars, appVars>>

ReconciliationsCreateExpense(t, vendorName) ==
    LET txn == TxnRow(txns, t)
        expense == NewExpense(txn.postingDate, vendorName, Abs(txn.amount), "paid",
                              txn.checkNumber, txn.postingDate)
    IN  /\ hpc = "idle"
        /\ Len(expenses) < MaxExpenses
        /\ expenses' = Append(expenses, expense)
        /\ txns' = MarkBankTransactionCreated(txns, expenses', t, Len(expenses'))
        /\ UNCHANGED <<pdfText, doc, lastTxnId, hpc, toInsert, am, runs, hist, queueVars, appVars>>

ReconciliationsUpdateType(t, txnType) ==
    LET shouldBePositive == txnType = "deposit" \/ txnType = "ach" \/ txnType = "refund"
    IN  /\ hpc = "idle"
        /\ txns' = UpdateBankTransactionTypeAndSign(txns, t, txnType, shouldBePositive)
        /\ UNCHANGED <<pdfText, doc, lastTxnId, expenses, hpc, toInsert, am, runs, hist, queueVars, appVars>>

(***************************************************************************)
(* SpecMatch: the records of one parsed statement, the ledger, AutoMatch   *)
(* and the review actions.  The parse handler up to the end of its insert  *)
(* loop is one step here (SpecParse has its statements).                   *)
(***************************************************************************)
MaxRecords == 2
MaxLedger == 2
MaxMatchRuns == 2

\* lines of the December 2025 statement
DepositLine == TxnLine(12, 3, <<"B", "A", "N", "K", "C", "A", "R", "D", " ", "M", "T", "O", "T", " ", "D", "E", "P">>, <<"8", "0", "0", ".", "0", "0">>)
Check2730 == CheckEntry(12, 1, <<"2", "7", "3", "0">>, <<"5", "0", "0", ".", "0", "0">>)
JetroPayment == <<TxnLine(12, 2, <<"D", "E", "B", "I", "T", " ", "P", "O", "S">>, <<"5", "0", "0", ".", "0", "0">>),
                  ContLine(<<"J", "E", "T", "R", "O", " ", "C", "A", "S", "H", " ", "B", "K", "L", "Y", "N", " ", "*", " ", "N", "Y">>)>>
FeeLine == TxnLine(12, 31, <<"M", "A", "I", "N", "T", "E", "N", "A", "N", "C", "E", " ", "F", "E", "E">>, <<"3", "0", ".", "0", "0">>)

MatchStatements ==
    {s \in {Statement(2025, 12, deposits, <<>>, checks, payments, <<>>, fees) :
               deposits \in {<<>>, <<DepositLine>>}, checks \in {<<>>, <<Check2730>>},
               payments \in {<<>>, JetroPayment}, fees \in {<<>>, <<FeeLine>>}} :
        Len(Parse(s)) \in 1..MaxRecords}

\* expenses of the ledger
ExpenseAmountDate ==
    NewExpense(<<2025, 12, 2>>, <<"J", "e", "t", "r", "o", " ", "C", "a", "s", "h">>, 50000, "paid", <<>>, <<2025, 12, 2>>)
ExpenseCheck ==
    NewExpense(<<2025, 12, 1>>, <<"A", "c", "m", "e", " ", "S", "u", "p", "p", "l", "y">>, 70000, "paid", <<"2", "7", "3", "0">>, <<2025, 12, 1>>)
ExpenseUnpaid ==
    NewExpense(<<2025, 12, 2>>, <<"A", "c", "m", "e", " ", "S", "u", "p", "p", "l", "y">>, 50000, "not_paid", <<>>, NoDate)
ExpensePool == <<ExpenseAmountDate, ExpenseCheck, ExpenseUnpaid>>

\* the ledgers of at most MaxLedger expenses of the pool (ids are given in the
\* order of the pool; another order is the same ledger with the ids renamed)
Ledgers ==
    UNION {{[i \in 1..n |-> ExpensePool[pick[i]]] :
              pick \in {p \in [1..n -> 1..Len(ExpensePool)] :
                          \A i, j \in 1..n : i < j => p[i] < p[j]}} :
           n \in 0..MaxLedger}

\* the insert loop of the handler: one row per parsed transaction, new ids
RECURSIVE InsertAll(_, _, _)
InsertAll(rows, lastId, parsed) ==
    IF parsed = <<>> THEN rows
    ELSE InsertAll(CreateBankTransaction(rows, lastId + 1, Head(parsed)), lastId + 1,
                   Tail(parsed))

\* A statement was uploaded for its month and parsed; AutoMatch is about to run.
MatchInit ==
    /\ pdfText \in MatchStatements
    /\ doc = [statementDate |-> <<2025, 12, 31>>, status |-> "parsed"]
    /\ \E parsed \in ParseResults(pdfText) :
         /\ txns = InsertAll(<<>>, 0, parsed)
         /\ lastTxnId = Len(parsed)
    /\ expenses \in Ledgers
    /\ hpc = "automatch"
    /\ toInsert = <<>>
    /\ am = NoAutoMatch
    /\ runs = 1
    /\ hist = [parses |-> <<ParsedFields(txns)>>, stored |-> <<>>]
    /\ jobs = <<>> /\ shared = {} /\ reserved = 0
    /\ wpc = [w \in Claimants |-> "idle"] /\ wjob = [w \in Claimants |-> NoJob]
    /\ claims = <<>> /\ errs = <<>> /\ lastErr = <<>>
    /\ recons = <<[statementDate |-> doc.statementDate]>>
    /\ AppStarted

\* ReconciliationsReparse and the next run of the handler up to AutoMatch:
\* Parse, DeleteBankTransactions, the insert loop.
ReparseAndInsert ==
    /\ hpc = "idle"
    /\ runs < MaxMatchRuns
    /\ \E parsed \in ParseResults(pdfText) :
         /\ txns' = InsertAll(DeleteBankTransactions(txns), lastTxnId, parsed)
         /\ lastTxnId' = lastTxnId + Len(parsed)
         /\ hist' = [hist EXCEPT !.parses = Append(@, parsed)]
    /\ runs' = runs + 1
    /\ hpc' = "automatch"
    /\ UNCHANGED <<pdfText, doc, expenses, toInsert, am, queueVars, appVars>>

MatchNext ==
    \/ AutoMatchBegin
    \/ AutoMatchStep
    \/ AutoMatchEnd
    \/ ReparseAndInsert
    \/ \E t \in TxnIds, e \in ExpenseIds : ReconciliationsMatch(t, e)
    \/ \E t \in TxnIds : ReconciliationsUnmatch(t)
    \/ \E t \in TxnIds : ReconciliationsIgnore(t)
    \/ \E t \in TxnIds, v \in VendorNames : ReconciliationsCreateExpense(t, v)
    \/ \E t \in TxnIds, ty \in UpdateTypes : ReconciliationsUpdateType(t, ty)

SpecMatch == MatchInit /\ [][MatchNext]_vars

(***************************************************************************)
(* SpecParse: ParseStatementHandler, statement by statement, run           *)
(* repeatedly on one document (first upload, retries of a failed attempt,  *)
(* reparse requests), with the review actions between the runs.            *)
(***************************************************************************)
MaxParseRuns == 3

CloverDeposit == TxnLine(12, 3, <<"B", "A", "N", "K", "C", "A", "R", "D", " ", "M", "T", "O", "T", " ", "D", "E", "P", " ", "C", "L", "O", "V", "E", "R">>, <<"8", "0", "0", ".", "0", "0">>)
CardPayment == <<TxnLine(12, 2, <<"D", "E", "B", "I", "T", " ", "P", "O", "S">>, <<"1", ",", "5", "2", "5", ".", "5", "0">>),
                 ContLine(<<"J", "E", "T", "R", "O", " ", "C", "A", "S", "H", " ", "B", "K", "L", "Y", "N", " ", "*", " ", "N", "Y">>),
                 ContLine(<<"4", "0", "8", "5", "4", "0", "4", "0", "3", "9", "8", "7", "7", "3", "8", "0">>)>>

ParseStatements ==
    {s \in {Statement(2025, 12, deposits, <<>>, checks, payments, <<>>, fees) :
               deposits \in {<<>>, <<CloverDeposit>>},
               checks \in {<<>>, <<Check2730>>, <<Check2730, Check2730>>},
               payments \in {<<>>, CardPayment}, fees \in {<<>>, <<FeeLine>>}} :
        Len(Parse(s)) \in 1..MaxRecords}
ParseLedgers == {<<>>, <<ExpenseAmountDate>>}
\* the review actions of this specification: ignore, and the type correction
\* to "deposit"
ParseUpdateTypes == {"deposit"}

\* The document was uploaded and its parse job queued.
ParseInit ==
    /\ pdfText \in ParseStatements
    /\ doc = [statementDate |-> <<2025, 12, 31>>, status |-> "parsing"]
    /\ txns = <<>>
    /\ lastTxnId = 0
    /\ expenses \in ParseLedgers
    /\ hpc = "idle"
    /\ toInsert = <<>>
    /\ am = NoAutoMatch
    /\ runs = 0
    /\ hist = NoHistory
    /\ jobs = <<>> /\ shared = {} /\ reserved = 0
    /\ wpc = [w \in Claimants |-> "idle"] /\ wjob = [w \in Claimants |-> NoJob]
    /\ claims = <<>> /\ errs = <<>> /\ lastErr = <<>>
    /\ recons = <<[statementDate |-> doc.statementDate]>>
    /\ AppStarted

\* The handler starts (the job was claimed): status 'parsing', then p.Parse
\* returns a result.
HandlerParse ==
    /\ hpc = "idle"
    /\ runs < MaxParseRuns
    /\ runs' = runs + 1
    /\ doc' = [doc EXCEPT !.status = "parsing"]
    /\ \E parsed \in ParseResults(pdfText) :
         /\ toInsert' = parsed
         /\ hist' = [hist EXCEPT !.parses = Append(@, parsed)]
    /\ hpc' = "parsed"
    /\ UNCHANGED <<pdfText, txns, lastTxnId, expenses, am, queueVars, appVars>>

\* The handler starts and p.Parse returns an error (pdftotext failed): status
\* back to 'pending', the handler returns the error.
HandlerParseError ==
    /\ hpc = "idle"
    /\ runs < MaxParseRuns
    /\ runs' = runs + 1
    /\ doc' = [doc EXCEPT !.status = "pending"]
    /\ UNCHANGED <<pdfText, txns, lastTxnId, expenses, hpc, toInsert, am, hist, queueVars, appVars>>

\* UpdateReconciliationParsed (which sets status 'parsed'), then
\* DeleteBankTransactions.
HandlerDelete ==
    /\ hpc = "parsed"
    /\ doc' = [doc EXCEPT !.status = "parsed"]
    /\ txns' = DeleteBankTransactions(txns)
    /\ hpc' = IF toInsert = <<>> THEN "automatch" ELSE "inserting"
    /\ UNCHANGED <<pdfText, lastTxnId, expenses, toInsert, am, runs, hist, queueVars, appVars>>

\* One iteration of the insert loop; the context is not done.
HandlerInsert ==
    /\ hpc = "inserting"
    /\ txns' = CreateBankTransaction(txns, lastTxnId + 1, Head(toInsert))
    /\ lastTxnId' = lastTxnId + 1
    /\ toInsert' = Tail(toInsert)
    /\ hpc' = IF Tail(toInsert) = <<>> THEN "automatch" ELSE "inserting"
    /\ UNCHANGED <<pdfText, doc, expenses, am, runs, hist, queueVars, appVars>>

\* The cancelled iteration with the rows of the run taken back
HandlerInsertCancelledRollback ==
    /\ hpc = "inserting"
    /\ txns' = <<>>
    /\ lastTxnId' = lastTxnId + 1
    /\ toInsert' = <<>>
    /\ hpc' = "idle"
    /\ UNCHANGED <<pdfText, doc, expenses, am, runs, hist, queueVars, appVars>>

\* One iteration of the insert loop, after which the context is done (the
\* deadline passed): the handler returns ctx.Err() and leaves the rows it
\* inserted.
HandlerInsertCancelled ==
    /\ hpc = "inserting"
    /\ txns' = CreateBankTransaction(txns, lastTxnId + 1, Head(toInsert))
    /\ lastTxnId' = lastTxnId + 1
    /\ toInsert' = <<>>
    /\ hpc' = "idle"
    /\ UNCHANGED <<pdfText, doc, expenses, am, runs, hist, queueVars, appVars>>

ParseNext ==
    \/ HandlerParse
    \/ HandlerParseError
    \/ HandlerDelete
    \/ HandlerInsert
    \/ HandlerInsertCancelled
    \/ AutoMatchBegin
    \/ AutoMatchStep
    \/ AutoMatchEnd
    \/ \E t \in TxnIds : ReconciliationsIgnore(t)
    \/ \E t \in TxnIds, ty \in ParseUpdateTypes : ReconciliationsUpdateType(t, ty)

SpecParse == ParseInit /\ [][ParseNext]_vars

(***************************************************************************)
(* Properties of the matcher and of the review actions                     *)
(***************************************************************************)
\* C5 (matcher uniqueness): in every reachable state no two records of the
\* document name the same matched expense.
C5_MatcherUniqueness ==
    \A i, j \in 1..Len(txns) :
        (i # j /\ txns[i].matchedExpenseId # 0)
            => txns[i].matchedExpenseId # txns[j].matchedExpenseId

\* the candidates AutoMatch may still link: paid and named by no record
Available(rows, candidates) ==
    {candidates[k] : k \in {x \in 1..Len(candidates) :
                              /\ candidates[x].status = "paid"
                              /\ ~isExpenseMatched(rows, candidates[x].id)}}

\* C6 (matcher precedence): when AutoMatch visits an unmatched debit record
\* for which one available candidate has the record's check number and one
\* available candidate has its amount with date paid within 3 days, the record
\* is linked to a check-number candidate with confidence auto_exact, whatever
\* the order of the candidates.
C6_MatcherPrecedence ==
    [][(hpc = "matching" /\ am.transactions # <<>> /\ am'.transactions # am.transactions) =>
         LET txn == Head(am.transactions)
             avail == Available(txns, am.expenses)
         IN  (/\ txn.amount < 0
              /\ txn.transactionType # "fee"
              /\ \E c \in avail : CheckNumberMatch(txn, c)
              /\ \E c \in avail : AmountDateMatch(txn, c))
             => LET after == TxnRow(txns', txn.id)
                IN  /\ after.matchStatus = "matched"
                    /\ after.matchConfidence = "auto_exact"
                    /\ \E c \in avail : CheckNumberMatch(txn, c)
                                        /\ after.matchedExpenseId = c.id
      ]_vars

\* C7 (link/status): in every reachable state a record names a matched expense
\* if and only if its match status is matched or created.
C7_LinkIffStatus ==
    \A i \in 1..Len(txns) :
        (txns[i].matchedExpenseId # 0) <=> (txns[i].matchStatus \in {"matched", "created"})

\* the sign an amount has for its type
SignMatchesType(row) ==
    /\ row.transactionType \in {"deposit", "credit"} => row.amount >= 0
    /\ row.transactionType \in {"check", "debit", "withdrawal", "fee"} => row.amount <= 0

\* C8 (sign): the amount of every stored record is not negative when its type
\* is deposit or credit and not positive when it is check, debit, withdrawal or
\* fee, also after a type correction, which leaves the magnitude unchanged.
C8_SignInvariant ==
    [][/\ \A i \in 1..Len(txns) : SignMatchesType(txns[i])
       /\ \A j \in 1..Len(txns') : SignMatchesType(txns'[j])
       /\ \A i \in 1..Len(txns), j \in 1..Len(txns') :
             txns[i].id = txns'[j].id => Abs(txns'[j].amount) = Abs(txns[i].amount)
      ]_vars

(***************************************************************************)
(* Properties of the parser and of the parse handler                       *)
(***************************************************************************)
LastParse == hist.parses[Len(hist.parses)]

\* the records the run in progress has stored so far are exactly the ones it
\* inserted: nothing of an earlier run is left
OnlyThisRun ==
    /\ hpc = "inserting" => ParsedFields(txns) \o toInsert = LastParse
    /\ hpc \in {"automatch", "matching"} => ParsedFields(txns) = LastParse

\* C9 (reparse idempotence): a run of the parse job on the same text first
\* removes every record an earlier run left (partially inserted ones and
\* ones changed by review actions included), and every completed run stores
\* the same records as the first completed run, identifiers apart.
C9_ReparseIdempotent ==
    /\ OnlyThisRun
    /\ \A k \in 1..Len(hist.stored) : hist.stored[k] = hist.stored[1]

\* C10 (parser determinism): any two parses of the same text return the same
\* sequence of records, field by field, vendor hint included.
C10_ParserDeterminism ==
    \A i, j \in 1..Len(hist.parses) : hist.parses[i] = hist.parses[j]

(***************************************************************************)
(* SpecText: Parse applied once to each text of a family of statements:    *)
(* statements of one dated line, for every statement period, section and   *)
(* month of the line (YearStatements), and statements whose Checks Paid    *)
(* table holds up to MaxCheckCells entries (CheckStatements).              *)
(***************************************************************************)
RefYears == {2025, 2026}
LineDays == {2, 30}
Sections == {"deposits", "credits", "checks", "payments", "withdrawals", "fees"}

\* The statement of period (year, month) whose only line, dated mm/dd, is in
\* the given section.
OneLineStatement(year, month, section, mm, dd) ==
    LET line == <<TxnLine(mm, dd, <<"A", "C", "H", " ", "D", "E", "B", "I", "T">>, <<"2", "5", ".", "0", "0">>)>>
        In(s) == IF section = s THEN line ELSE <<>>
    IN  Statement(year, month, In("deposits"), In("credits"),
                  IF section = "checks"
                    THEN <<CheckEntry(mm, dd, <<"2", "7", "3", "0">>, <<"2", "5", ".", "0", "0">>)>> ELSE <<>>,
                  In("payments"), In("withdrawals"), In("fees"))
YearStatements ==
    {OneLineStatement(year, month, section, mm, dd) :
        year \in RefYears, month \in 1..12, section \in Sections,
        mm \in 1..12, dd \in LineDays}

\* Entries of the two-column Checks Paid table: serial cells with and without
\* the asterisk, two dates with their amounts.
MaxCheckCells == 3
CheckCells ==
    {CheckEntry(12, d[1], serial, d[2]) :
        serial \in {<<"2", "7", "3", "0">>, <<"2", "7", "3", "0", "*">>, <<"2", "7", "3", "9", "*">>},
        d \in {<<1, <<"5", "0", "0", ".", "0", "0">>>>, <<18, <<"1", ",", "6", "1", "4", ".", "5", "0">>>>}}
CheckStatements ==
    {Statement(2025, 12, <<>>, <<>>, checks, <<>>, <<>>, <<>>) :
        checks \in UNION {[1..n -> CheckCells] : n \in 1..MaxCheckCells}}

TextInit ==
    /\ pdfText \in YearStatements \cup CheckStatements
    /\ doc = [statementDate |-> <<pdfText.year, pdfText.month,
                                  DaysInMonth(pdfText.year, pdfText.month)>>,
              status |-> "parsing"]
    /\ txns = <<>>
    /\ lastTxnId = 0
    /\ expenses = <<>>
    /\ hpc = "idle"
    /\ toInsert = <<>>
    /\ am = NoAutoMatch
    /\ runs = 0
    /\ hist = NoHistory
    /\ jobs = <<>> /\ shared = {} /\ reserved = 0
    /\ wpc = [w \in Claimants |-> "idle"] /\ wjob = [w \in Claimants |-> NoJob]
    /\ claims = <<>> /\ errs = <<>> /\ lastErr = <<>>
    /\ recons = <<[statementDate |-> doc.statementDate]>>
    /\ AppStarted

TextNext == HandlerParse

SpecText == TextInit /\ [][TextNext]_vars

\* The MM/DD dates of a statement's lines, in the order Parse reads the
\* sections (no serial is repeated in the statements this is used for).
DatedLines(text) ==
    LET Dates(section) ==
            LET lines == SelectSeq(section, IsTxnLine)
            IN  [i \in 1..Len(lines) |-> <<lines[i].mm, lines[i].dd>>]
    IN  Dates(text.deposits) \o Dates(text.credits)
          \o [i \in 1..Len(text.checks) |-> <<text.checks[i].mm, text.checks[i].dd>>]
          \o Dates(text.payments) \o Dates(text.withdrawals) \o Dates(text.fees)

\* C11 (year inference): a record whose line is dated mm/dd in a statement of
\* period (Y, M) is posted in year Y+1 when mm = 1 and M = 12, in year Y-1
\* when mm = 12 and M = 1, and in year Y otherwise; month and day are those
\* of the line.
C11_YearInference ==
    (hpc = "parsed" /\ pdfText \in YearStatements) =>
        LET dated == DatedLines(pdfText)
            Y == pdfText.year
            M == pdfText.month
        IN  /\ Len(toInsert) = Len(dated)
            /\ \A i \in 1..Len(dated) :
                 LET mm == dated[i][1]
                     dd == dated[i][2]
                     postingYear == IF mm = 1 /\ M = 12 THEN Y + 1
                                    ELSE IF mm = 12 /\ M = 1 THEN Y - 1
                                    ELSE Y
                 IN  toInsert[i].postingDate = <<postingYear, mm, dd>>
C11_Witness ==
    /\ hpc = "parsed"
    /\ pdfText \in YearStatements
    /\ pdfText.month = 12
    /\ Len(toInsert) = 1
    /\ toInsert[1].postingDate = <<pdfText.year + 1, 1, 2>>

\* The digits of a serial cell, and the first entry of a table with the
\* given serial number
SerialDigits(serial) == SelectSeq(serial, IsDigit)
FirstWithSerial(cells, number) ==
    CHOOSE j \in 1..Len(cells) :
        /\ SerialDigits(cells[j].serial) = number
        /\ \A k \in 1..(j - 1) : SerialDigits(cells[k].serial) # number

\* C12 (check dedup): the check records of a parse are one per distinct
\* serial number of the Checks Paid table, an asterisk after the serial
\* ignored: as many records as distinct serials, each with the date and
\* amount of the first entry of its serial, in the order of those entries.
C12_CheckDedup ==
    hpc = "parsed" =>
        LET cells == pdfText.checks
            serials == {SerialDigits(cells[j].serial) : j \in 1..Len(cells)}
            checks == SelectSeq(toInsert, LAMBDA r : r.transactionType = "check")
        IN  /\ Len(checks) = Cardinality(serials)
            /\ {checks[i].checkNumber : i \in 1..Len(checks)} = serials
            /\ \A i \in 1..Len(checks) :
                 LET first == cells[FirstWithSerial(cells, checks[i].checkNumber)]
                 IN  /\ checks[i].amount = -parseAmount(first.amount)
                     /\ checks[i].postingDate[2] = first.mm
                     /\ checks[i].postingDate[3] = first.dd
            /\ \A i, k \in 1..Len(checks) :
                 i < k => FirstWithSerial(cells, checks[i].checkNumber)
                            < FirstWithSerial(cells, checks[k].checkNumber)
C12_Witness ==
    /\ hpc = "parsed"
    /\ Len(pdfText.checks) = 3
    /\ pdfText.checks[1].serial = <<"2", "7", "3", "0", "*">>
    /\ pdfText.checks[2].serial = <<"2", "7", "3", "9", "*">>
    /\ pdfText.checks[3].serial = <<"2", "7", "3", "0">>
    /\ pdfText.checks[1].amount # pdfText.checks[3].amount
    /\ Len(toInsert) = 2

(***************************************************************************)
(* SpecWorker: the application's one worker (main starts a single Worker)  *)
(* on the parse jobs of one uploaded document.  Worker.Start's loop claims *)
(* a job and runs ParseStatementHandler on it; the handler is followed     *)
(* from its call to its return as one step per outcome.  The review page   *)
(* may request a reparse; Worker.Stop may be called.  The ledger is empty, *)
(* so AutoMatch finds no candidate and links nothing.                      *)
(***************************************************************************)
TheWorker == 1

ParsePDFError == "parse PDF: extract text"
DeadlineError == "context deadline exceeded"

WorkerStatements ==
    {Statement(2025, 12, <<>>, <<>>, <<Check2730>>, <<>>, <<>>, fees) :
        fees \in {<<>>, <<FeeLine>>}}

\* ReconciliationsUpload has run: the row is inserted, its parse job queued
\* and recorded on it (UpdateReconciliationParseJob, status 'parsing').
WorkerInit ==
    /\ pdfText \in WorkerStatements
    /\ doc = [statementDate |-> <<2025, 12, 31>>, status |-> "parsing",
              parseJobId |-> 1, parsedAt |-> 0]
    /\ recons = <<[statementDate |-> doc.statementDate]>>
    /\ jobs = <<NewJobRow("parse_statement", 1)>>
    /\ claims = <<0>> /\ errs = <<0>> /\ lastErr = <<"">>
    /\ shared = {} /\ reserved = 0
    /\ wpc = [w \in Claimants |-> "idle"] /\ wjob = [w \in Claimants |-> NoJob]
    /\ txns = <<>>
    /\ lastTxnId = 0
    /\ expenses = <<>>
    /\ hpc = "idle"
    /\ toInsert = <<>>
    /\ am = NoAutoMatch
    /\ runs = 0
    /\ hist = NoHistory
    /\ AppStarted

\* Worker.Start, one iteration: the select finds stop open (default branch),
\* ClaimNextJob finds no pending job, the loop sleeps.
WorkerSleep ==
    /\ stopCh = "open"
    /\ ClaimNone(TheWorker)

\* Worker.Start, one iteration: the select finds stop open, ClaimNextJob
\* begins its transaction and selects the oldest pending job.
WorkerClaim ==
    /\ stopCh = "open"
    /\ ClaimSelect(TheWorker)

\* Worker.Start: the select finds stop closed; return, deferred close(w.done).
WorkerExit ==
    /\ wpc[TheWorker] = "idle"
    /\ stopCh = "closed"
    /\ doneCh' = "closed"
    /\ wpc' = [wpc EXCEPT ![TheWorker] = "exited"]
    /\ UNCHANGED <<jobs, shared, reserved, wjob, claims, errs, lastErr, docVars,
                   recons, stopCh, mainpc>>

\* Worker.Stop: close(w.stop), then block in <-w.done.
StopSignal ==
    /\ mainpc = "serving"
    /\ stopCh' = "closed"
    /\ mainpc' = "waiting"
    /\ UNCHANGED <<queueVars, docVars, recons, doneCh>>

\* Worker.Stop without the receive from w.done
StopReturnNoWait ==
    /\ mainpc = "waiting"
    /\ mainpc' = "stopped"
    /\ UNCHANGED <<queueVars, docVars, recons, stopCh, doneCh>>

\* Worker.Stop: <-w.done returns once the channel is closed.
StopReturn ==
    /\ mainpc = "waiting"
    /\ doneCh = "closed"
    /\ mainpc' = "stopped"
    /\ UNCHANGED <<queueVars, docVars, recons, stopCh, doneCh>>

\* processJob gives the handler's error to FailJob or RetryJob and returns to
\* the loop.
JobReturnsError(errMsg) ==
    LET job == wjob[TheWorker] IN
    /\ jobs' = AfterError(jobs, job, errMsg)
    /\ errs' = [errs EXCEPT ![job.id] = errs[job.id] + 1]
    /\ lastErr' = [lastErr EXCEPT ![job.id] = errMsg]
    /\ wpc' = [wpc EXCEPT ![TheWorker] = "idle"]
    /\ wjob' = [wjob EXCEPT ![TheWorker] = NoJob]

\* The handler runs to its end: status 'parsing', Parse,
\* UpdateReconciliationParsed, DeleteBankTransactions, the insert loop,
\* AutoMatch (nothing to link), status 'parsed', CompleteJob, return nil.
JobParsed ==
    /\ wpc[TheWorker] = "handler"
    /\ CanWrite
    /\ expenses = <<>>
    /\ runs' = runs + 1
    /\ \E parsed \in ParseResults(pdfText) :
         /\ txns' = InsertAll(DeleteBankTransactions(txns), lastTxnId, parsed)
         /\ lastTxnId' = lastTxnId + Len(parsed)
    /\ doc' = [doc EXCEPT !.status = "parsed", !.parsedAt = runs + 1]
    /\ jobs' = CompleteJob(jobs, wjob[TheWorker].id, ResultOK)
    /\ wpc' = [wpc EXCEPT ![TheWorker] = "idle"]
    /\ wjob' = [wjob EXCEPT ![TheWorker] = NoJob]
    /\ UNCHANGED <<shared, reserved, claims, errs, lastErr, pdfText, expenses, hpc,
                   toInsert, am, hist, appVars>>

\* The handler with pdftotext exiting with an error: status 'parsing', Parse
\* returns "extract text: ...", status 'pending', return "parse PDF: ...".
\* The document's records after the return are the given rows.
ExtractFailure(rows) ==
    /\ wpc[TheWorker] = "handler"
    /\ CanWrite
    /\ runs' = runs + 1
    /\ doc' = [doc EXCEPT !.status = "pending"]
    /\ txns' = rows
    /\ JobReturnsError(ParsePDFError)
    /\ UNCHANGED <<shared, reserved, claims, pdfText, lastTxnId, expenses, hpc,
                   toInsert, am, hist, appVars>>
JobExtractFailsAfterDelete == ExtractFailure(DeleteBankTransactions(txns))
JobExtractFails == ExtractFailure(txns)

\* The handler with the deadline passing during the insert loop: the select
\* after the k-th CreateBankTransaction finds ctx done, return ctx.Err().
JobCancelled ==
    /\ wpc[TheWorker] = "handler"
    /\ CanWrite
    /\ runs' = runs + 1
    /\ \E parsed \in ParseResults(pdfText) : \E k \in 1..Len(parsed) :
         /\ txns' = InsertAll(DeleteBankTransactions(txns), lastTxnId,
                              SubSeq(parsed, 1, k))
         /\ lastTxnId' = lastTxnId + k
    /\ doc' = [doc EXCEPT !.status = "parsed", !.parsedAt = runs + 1]
    /\ JobReturnsError(DeadlineError)
    /\ UNCHANGED <<shared, reserved, claims, pdfText, expenses, hpc, toInsert, am,
                   hist, appVars>>

\* The blocked handler on a goroutine of its own: the loop of Worker.Start
\* goes on while the job is running
JobExtractHangsDetached ==
    /\ wpc[TheWorker] = "handler"
    /\ CanWrite
    /\ runs' = runs + 1
    /\ doc' = [doc EXCEPT !.status = "parsing"]
    /\ wpc' = [wpc EXCEPT ![TheWorker] = "idle"]
    /\ wjob' = [wjob EXCEPT ![TheWorker] = NoJob]
    /\ UNCHANGED <<jobs, shared, reserved, claims, errs, lastErr, pdfText, txns,
                   lastTxnId, expenses, hpc, toInsert, am, hist, appVars>>

\* The handler with pdftotext never exiting: status 'parsing', then
\* exec.Command(...).Output() blocks.
JobExtractHangs ==
    /\ wpc[TheWorker] = "handler"
    /\ CanWrite
    /\ runs' = runs + 1
    /\ doc' = [doc EXCEPT !.status = "parsing"]
    /\ wpc' = [wpc EXCEPT ![TheWorker] = "blocked"]
    /\ UNCHANGED <<jobs, shared, reserved, wjob, claims, errs, lastErr, pdfText, txns,
                   lastTxnId, expenses, hpc, toInsert, am, hist, appVars>>

\* The five minutes of context.WithTimeout pass while Output() blocks: ctx is
\* done; the command was started without the context and nothing selects on
\* ctx.Done() here.
ContextDeadline ==
    /\ wpc[TheWorker] = "blocked"
    /\ wpc' = [wpc EXCEPT ![TheWorker] = "blocked, ctx done"]
    /\ UNCHANGED <<jobs, shared, reserved, wjob, claims, errs, lastErr, docVars, appVars>>

\* ReconciliationsReparse: status 'pending', CreateJob,
\* UpdateReconciliationParseJob (parse_job_id, status 'parsing').
ReconciliationsReparse ==
    /\ Len(jobs) < MaxJobs
    /\ CanWrite
    /\ \E now \in Now : jobs' = Append(jobs, NewJobRow("parse_statement", now))
    /\ claims' = Append(claims, 0)
    /\ errs' = Append(errs, 0)
    /\ lastErr' = Append(lastErr, "")
    /\ doc' = [doc EXCEPT !.status = "parsing", !.parseJobId = Len(jobs) + 1]
    /\ UNCHANGED <<shared, reserved, wpc, wjob, pdfText, txns, lastTxnId, expenses, hpc,
                   toInsert, am, runs, hist, appVars>>

\* The steps of the worker's goroutine
WorkerRuns ==
    \/ WorkerClaim
    \/ ClaimUpdate(TheWorker)
    \/ ClaimCommit(TheWorker)
    \/ JobParsed
    \/ JobExtractFails
    \/ JobCancelled
    \/ JobExtractHangs
    \/ WorkerExit

WorkerNext ==
    \/ WorkerSleep
    \/ WorkerClaim
    \/ ClaimUpdate(TheWorker)
    \/ ClaimCommit(TheWorker)
    \/ JobParsed
    \/ JobExtractFails
    \/ JobCancelled
    \/ JobExtractHangs
    \/ ContextDeadline
    \/ WorkerExit
    \/ ReconciliationsReparse
    \/ StopSignal
    \/ StopReturn

\* The goroutine of Worker.Start is scheduled as long as it can take a step;
\* the timer of the context fires; Stop returns once done is closed.
SpecWorker ==
    /\ WorkerInit
    /\ [][WorkerNext]_vars
    /\ WF_vars(WorkerRuns)
    /\ WF_vars(ContextDeadline)
    /\ WF_vars(StopReturn)

\* C13 (extractor failure commits no state): an attempt that ends with the
\* extractor's error deletes and inserts no record and leaves the parsed
\* header of the document as it was; the job gets the error as a handler
\* error: back to pending while attempts remain, failed with the error text
\* after the last attempt.
C13_ExtractorFailure ==
    [][\A j \in 1..Len(jobs) :
         (errs'[j] = errs[j] + 1 /\ lastErr'[j] = ParsePDFError) =>
            /\ txns' = txns
            /\ lastTxnId' = lastTxnId
            /\ doc'.parsedAt = doc.parsedAt
            /\ doc'.statementDate = doc.statementDate
            /\ jobs[j].status = "running"
            /\ IF jobs[j].attempts < jobs[j].maxAttempts
                 THEN jobs'[j].status = "pending"
                 ELSE jobs'[j].status = "failed" /\ jobs'[j].result = ParsePDFError]_vars
C13_Witness ==
    /\ Len(jobs) = 2
    /\ jobs[1].status = "completed"
    /\ jobs[2].status = "failed"
    /\ errs[2] = 3
    /\ lastErr[2] = ParsePDFError
    /\ Len(txns) = 2
    /\ doc.parsedAt = 1

(***************************************************************************)
(* SpecUpload: uploads of statements through the bank-statements page.     *)
(***************************************************************************)
\* the statement_month values of the upload form, as <<year, month>>
UploadMonths == {<<2025, month>> : month \in 1..12}

\* ReconciliationsUpload: statement date = last day of the selected month;
\* CreateReconciliation (a plain INSERT: the table has no unique constraint
\* on statement_date and the handler does not look for a row of the month),
\* CreateJob, UpdateReconciliationParseJob.
ReconciliationsUpload(statementMonth) ==
    LET statementDate == <<statementMonth[1], statementMonth[2],
                           DaysInMonth(statementMonth[1], statementMonth[2])>>
    IN  /\ Len(jobs) < MaxJobs
        /\ CanWrite
        /\ recons' = Append(recons, [statementDate |-> statementDate])
        /\ \E now \in Now : jobs' = Append(jobs, NewJobRow("parse_statement", now))
        /\ claims' = Append(claims, 0)
        /\ errs' = Append(errs, 0)
        /\ lastErr' = Append(lastErr, "")
        /\ UNCHANGED <<shared, reserved, wpc, wjob, docVars, stopCh, doneCh, mainpc>>

UploadNext == \E statementMonth \in UploadMonths : ReconciliationsUpload(statementMonth)

SpecUpload == QueueInit /\ [][UploadNext]_vars

\* C14 (one document per calendar period): no two rows of
\* bank_reconciliations have their statement date in the same month.
C14_OneDocumentPerPeriod ==
    \A i, k \in 1..Len(recons) :
        i # k => <<recons[i].statementDate[1], recons[i].statementDate[2]>>
                   # <<recons[k].statementDate[1], recons[k].statementDate[2]>>

\* C15 (reparse recovers a stuck document): a job queued by
\* ReconciliationsReparse and recorded on the document is eventually claimed
\* by the worker, unless the worker was told to stop.
C15_ReparseRecovers ==
    \A j \in 2..MaxJobs :
        (Len(jobs) >= j /\ doc.parseJobId = j)
          ~> (stopCh = "closed" \/ (Len(jobs) >= j /\ claims[j] > 0))

\* C16 (the deadline guards against an extractor hang): a job whose handler
\* is blocked in the extractor call eventually leaves running.
C16_DeadlineEndsHang ==
    \A j \in 1..MaxJobs :
        (wpc[TheWorker] = "blocked" /\ wjob[TheWorker].id = j)
          ~> (Len(jobs) >= j /\ jobs[j].status # "running")

\* C17 (graceful shutdown): when Worker.Stop has returned, the loop of
\* Worker.Start has exited, no ClaimNextJob transaction is open, no handler
\* is executing and no job is left running: every claimed job is completed,
\* failed or back to pending.
C17_GracefulShutdown ==
    mainpc = "stopped" =>
        /\ wpc[TheWorker] = "exited"
        /\ doneCh = "closed"
        /\ shared = {} /\ reserved = 0
        /\ \A j \in 1..Len(jobs) :
             /\ jobs[j].status # "running"
             /\ claims[j] > 0 => jobs[j].status \in {"completed", "failed", "pending"}
C17_Witness ==
    /\ mainpc = "stopped"
    /\ Len(jobs) = 2
    /\ claims[1] = 2 /\ jobs[1].status = "completed"
    /\ claims[2] = 1 /\ jobs[2].status = "pending"

(***************************************************************************)
(* SpecPool: one run of AutoMatch on the freshly inserted records of a     *)
(* parsed statement, for every statement and ledger of SpecMatch, with no  *)
(* review action.                                                          *)
(***************************************************************************)
PoolNext ==
    \/ AutoMatchBegin
    \/ AutoMatchStep
    \/ AutoMatchEnd

SpecPool == MatchInit /\ [][PoolNext]_vars

C19_StatusOrdering ==
    doc.status = "parsed" =>
        /\ hpc = "idle"
        /\ hist.parses # <<>>
        /\ Len(txns) = Len(LastParse)

\* C20 (atomic bulk replace): at no moment between the handler's delete and
\* its last insert can the stored records be read as anything but the
\* complete new set, or the old set (which is empty only if no record was
\* ever inserted).
C20_AtomicReplace ==
    hpc = "inserting" =>
        \/ ParsedFields(txns) = LastParse
        \/ txns = <<>> /\ lastTxnId = 0

(***************************************************************************)
(* SpecCancel: the parse handler, statement by statement, run repeatedly   *)
(* on one document (retries and reparse requests), every run ending with a *)
(* result, with the extractor's error or with the deadline passing in the  *)
(* insert loop; no review action is taken.                                 *)
(***************************************************************************)
CancelNext ==
    \/ HandlerParse
    \/ HandlerParseError
    \/ HandlerDelete
    \/ HandlerInsert
    \/ HandlerInsertCancelled
    \/ AutoMatchBegin
    \/ AutoMatchStep
    \/ AutoMatchEnd

SpecCancel == ParseInit /\ [][CancelNext]_vars

\* C21 (cooperative cancellation): a run of the handler ends with the
\* deadline's error only in the insert loop, right after an insert; the rows
\* the run inserted so far, the last one included, stay stored; the next run
\* that gets past the parse deletes every stored row before its first insert.
C21_CooperativeCancellation ==
    [][/\ (hpc # "idle" /\ hpc' = "idle") => hpc \in {"inserting", "matching"}
       /\ (hpc = "inserting" /\ hpc' = "idle") =>
            /\ toInsert # <<>>
            /\ Len(txns') = Len(txns) + 1
            /\ SubSeq(txns', 1, Len(txns)) = txns
            /\ ParsedFields(txns') \o Tail(toInsert) = LastParse
            /\ doc' = doc
       /\ (hpc = "parsed" /\ hpc' # "parsed") => txns' = <<>>
       /\ (hpc # "inserting" /\ hpc' = "inserting") => txns' = <<>>
       /\ (hpc = "inserting" /\ hpc' # "idle") =>
            /\ Len(txns') = Len(txns) + 1
            /\ ParsedFields(txns') \o toInsert' = LastParse
      ]_vars
\* a first run was cancelled after its second insert; the second run has
\* deleted the two rows and inserted its first
C21_Witness ==
    /\ runs = 2
    /\ hist.stored = <<>>
    /\ hpc = "inserting"
    /\ Len(txns) = 1
    /\ txns[1].id = 3
    /\ lastTxnId = 3

Running == {j \in 1..Len(jobs) : jobs[j].status = "running"}

\* C23 (single running job): with the one worker at most one job is running
\* in every state, and a job is claimed only when no job is running, that is
\* when no handler of an earlier claim is executing or blocked.
C23_SingleRunningJob ==
    [][/\ Cardinality(Running') <= 1
       /\ \A j \in 1..Len(jobs) :
            claims'[j] = claims[j] + 1 =>
               /\ Running = {}
               /\ wpc[TheWorker] = "updated"
               /\ Running' = {j}
       /\ \A j \in Running' : wjob'[TheWorker].id = j]_vars
\* the handler of job 1 is executing while the reparse job 2 waits
C23_Witness ==
    /\ Len(jobs) = 2
    /\ jobs[1].status = "running"
    /\ claims[1] = 2
    /\ wpc[TheWorker] = "handler"
    /\ jobs[2].status = "pending"

(***************************************************************************)
(* SpecBlocks: Parse applied once to each statement whose Electronic       *)
(* Payments or Other Withdrawals section holds up to MaxSectionLines lines *)
(* of these kinds: two dated lines, an indented text line, an indented     *)
(* card number, a line neither dated nor indented.                         *)
(***************************************************************************)
MaxSectionLines == 3
BlockLines ==
    {TxnLine(12, 2, <<"D", "E", "B", "I", "T", " ", "P", "O", "S">>, <<"2", "5", ".", "0", "0">>),
     TxnLine(12, 5, <<"A", "C", "H", " ", "D", "E", "B", "I", "T">>, <<"4", "0", ".", "0", "0">>),
     ContLine(<<"J", "E", "T", "R", "O", " ", "C", "A", "S", "H">>),
     ContLine(<<"4", "0", "8", "5", "4", "0", "4", "0", "3", "9", "8", "7", "7", "3", "8", "0">>),
     OtherLine}
BlockSections == UNION {[1..n -> BlockLines] : n \in 1..MaxSectionLines}
BlockStatements ==
    {Statement(2025, 12, <<>>, <<>>, <<>>, section, <<>>, <<>>) : section \in BlockSections}
      \cup {Statement(2025, 12, <<>>, <<>>, <<>>, <<>>, section, <<>>) : section \in BlockSections}

BlocksInit ==
    /\ pdfText \in BlockStatements
    /\ doc = [statementDate |-> <<2025, 12, 31>>, status |-> "parsing"]
    /\ txns = <<>>
    /\ lastTxnId = 0
    /\ expenses = <<>>
    /\ hpc = "idle"
    /\ toInsert = <<>>
    /\ am = NoAutoMatch
    /\ runs = 0
    /\ hist = NoHistory
    /\ jobs = <<>> /\ shared = {} /\ reserved = 0
    /\ wpc = [w \in Claimants |-> "idle"] /\ wjob = [w \in Claimants |-> NoJob]
    /\ claims = <<>> /\ errs = <<>> /\ lastErr = <<>>
    /\ recons = <<[statementDate |-> doc.statementDate]>>
    /\ AppStarted

BlocksNext == HandlerParse

SpecBlocks == BlocksInit /\ [][BlocksNext]_vars

\* the positions of the dated lines of a section, in order
DatedPositions(section) ==
    LET Pos(k) == CHOOSE p \in 1..Len(section) :
                     /\ section[p].kind = "txn"
                     /\ Cardinality({q \in 1..p : section[q].kind = "txn"}) = k
    IN  [k \in 1..Cardinality({q \in 1..Len(section) : section[q].kind = "txn"}) |-> Pos(k)]
\* the continuation texts a record opened at position p takes: the indented
\* lines up to the next dated line that are not a digit run
RECURSIVE TakenFrom(_, _)
TakenFrom(section, q) ==
    IF q > Len(section) \/ section[q].kind = "txn" THEN <<>>
    ELSE IF section[q].kind = "cont" /\ ~IsCardNumber(TrimSpace(section[q].body))
      THEN <<TrimSpace(section[q].body)>> \o TakenFrom(section, q + 1)
    ELSE TakenFrom(section, q + 1)
RECURSIVE JoinSpace(_, _)
JoinSpace(description, parts) ==
    IF parts = <<>> THEN description
    ELSE JoinSpace(description \o <<" ">> \o Head(parts), Tail(parts))

\* C24 (multi-line record assembly): in the payments and in the withdrawals
\* section the records are the dated lines, in order, and the description of
\* each is the text of its dated line followed by its indented lines up to
\* the next dated line, the digit-only ones left out.
C24_MultiLineAssembly ==
    (hpc = "parsed" /\ pdfText \in BlockStatements) =>
        LET section == pdfText.payments \o pdfText.withdrawals
            dated == DatedPositions(section)
        IN  /\ Len(toInsert) = Len(dated)
            /\ \A k \in 1..Len(dated) :
                 LET line == section[dated[k]] IN
                 /\ toInsert[k].postingDate = <<2025, line.mm, line.dd>>
                 /\ toInsert[k].amount = -parseAmount(line.amount)
                 /\ toInsert[k].description =
                        JoinSpace(TrimSpace(line.desc), TakenFrom(section, dated[k] + 1))
\* the same for the payments section alone
PaymentsAssembly ==
    pdfText.withdrawals = <<>> => C24_MultiLineAssembly

\* C25 (match confidence domain): in every reachable state the match
\* confidence of every record is auto_exact, auto_fuzzy, manual, created or
\* the empty string.
C25_ConfidenceDomain ==
    \A i \in 1..Len(txns) :
        txns[i].matchConfidence \in {"auto_exact", "auto_fuzzy", "manual", "created", ""}
\* the same with the confidence a type correction to deposit writes admitted
ConfidenceDomainWithDeposit ==
    \A i \in 1..Len(txns) :
        txns[i].matchConfidence \in {"auto_exact", "auto_fuzzy", "manual", "created", "",
                                     "deposit"}

(***************************************************************************)
(* SpecTargets: one run of AutoMatch on the records of a parsed statement, *)
(* for ledgers drawn from a pool of expenses that fit the records in one   *)
(* respect and miss them in another.                                       *)
(***************************************************************************)
\* 500.01 on the day of the card payment
ExpenseNearAmount ==
    NewExpense(<<2025, 12, 2>>, <<"J", "e", "t", "r", "o", " ", "C", "a", "s", "h">>, 50001, "paid", <<>>, <<2025, 12, 2>>)
\* 500.00 paid 3 days after the card payment, 4 days after the check
ExpenseThreeDays ==
    NewExpense(<<2025, 12, 5>>, <<"A", "c", "m", "e", " ", "S", "u", "p", "p", "l", "y">>, 50000, "paid", <<>>, <<2025, 12, 5>>)
\* 500.00 paid 4 days after the card payment
ExpenseFourDays ==
    NewExpense(<<2025, 12, 6>>, <<"A", "c", "m", "e", " ", "S", "u", "p", "p", "l", "y">>, 50000, "paid", <<>>, <<2025, 12, 6>>)
\* 500.00 paid weeks later, to the vendor of the card payment
ExpenseVendorOnly ==
    NewExpense(<<2025, 12, 20>>, <<"J", "E", "T", "R", "O", " ", "C", "A", "S", "H", " ", "&", " ", "C", "A", "R", "R", "Y">>, 50000, "paid", <<>>, <<2025, 12, 20>>)
\* the amount, day and vendor of the maintenance fee
ExpenseFeeAmount ==
    NewExpense(<<2025, 12, 31>>, <<"T", "D", " ", "B", "a", "n", "k">>, 3000, "paid", <<>>, <<2025, 12, 31>>)
\* the amount, day and vendor of the deposit
ExpenseDepositAmount ==
    NewExpense(<<2025, 12, 3>>, <<"B", "a", "n", "k", "c", "a", "r", "d", " ", "S", "e", "r", "v", "i", "c", "e", "s">>, 80000, "paid", <<>>, <<2025, 12, 3>>)
\* not paid, with the number of the check and the vendor of the card payment
ExpenseUnpaidCheck ==
    NewExpense(<<2025, 12, 2>>, <<"J", "e", "t", "r", "o", " ", "C", "a", "s", "h">>, 50000, "not_paid", <<"2", "7", "3", "0">>, NoDate)
TargetPool ==
    <<ExpenseAmountDate, ExpenseCheck, ExpenseNearAmount, ExpenseThreeDays, ExpenseFourDays,
      ExpenseVendorOnly, ExpenseFeeAmount, ExpenseDepositAmount, ExpenseUnpaidCheck>>
TargetLedgers ==
    UNION {{[i \in 1..n |-> TargetPool[pick[i]]] :
              pick \in {p \in [1..n -> 1..Len(TargetPool)] :
                          \A i, j \in 1..n : i < j => p[i] < p[j]}} :
           n \in 0..MaxLedger}

\* The insert loop of the parse handler has stored the records.
TargetsInit ==
    /\ pdfText \in MatchStatements
    /\ doc = [statementDate |-> <<2025, 12, 31>>, status |-> "parsed"]
    /\ \E parsed \in ParseResults(pdfText) :
         /\ txns = InsertAll(<<>>, 0, parsed)
         /\ lastTxnId = Len(parsed)
    /\ expenses \in TargetLedgers
    /\ hpc = "automatch"
    /\ toInsert = <<>>
    /\ am = NoAutoMatch
    /\ runs = 1
    /\ hist = [parses |-> <<ParsedFields(txns)>>, stored |-> <<>>]
    /\ jobs = <<>> /\ shared = {} /\ reserved = 0
    /\ wpc = [w \in Claimants |-> "idle"] /\ wjob = [w \in Claimants |-> NoJob]
    /\ claims = <<>> /\ errs = <<>> /\ lastErr = <<>>
    /\ recons = <<[statementDate |-> doc.statementDate]>>
    /\ AppStarted

SpecTargets == TargetsInit /\ [][PoolNext]_vars

(***************************************************************************)
(* SpecFrame: one run of AutoMatch for the statements and ledgers of       *)
(* SpecMatch, with review requests served while the parse job runs: a      *)
(* record may have been matched by hand, ignored or turned into an expense *)
(* between its insert and the moment AutoMatch reads the unmatched         *)
(* records.                                                                *)
(***************************************************************************)
\* ReconciliationsMatch, ReconciliationsIgnore and ReconciliationsCreateExpense
\* served before AutoMatch is called
MatchDuringJob(t, e) ==
    /\ hpc = "automatch"
    /\ txns' = MatchBankTransaction(txns, expenses, t, e, "manual")
    /\ UNCHANGED <<pdfText, doc, lastTxnId, expenses, hpc, toInsert, am, runs, hist, queueVars, appVars>>
IgnoreDuringJob(t) ==
    /\ hpc = "automatch"
    /\ txns' = IgnoreBankTransaction(txns, t)
    /\ UNCHANGED <<pdfText, doc, lastTxnId, expenses, hpc, toInsert, am, runs, hist, queueVars, appVars>>
CreateExpenseDuringJob(t, vendorName) ==
    LET txn == TxnRow(txns, t)
        expense == NewExpense(txn.postingDate, vendorName, Abs(txn.amount), "paid",
                              txn.checkNumber, txn.postingDate)
    IN  /\ hpc = "automatch"
        /\ Len(expenses) < MaxExpenses
        /\ expenses' = Append(expenses, expense)
        /\ txns' = MarkBankTransactionCreated(txns, expenses', t, Len(expenses'))
        /\ UNCHANGED <<pdfText, doc, lastTxnId, hpc, toInsert, am, runs, hist, queueVars, appVars>>

FrameNext ==
    \/ \E t \in TxnIds, e \in ExpenseIds : MatchDuringJob(t, e)
    \/ \E t \in TxnIds : IgnoreDuringJob(t)
    \/ \E t \in TxnIds, v \in VendorNames : CreateExpenseDuringJob(t, v)
    \/ AutoMatchBegin
    \/ AutoMatchStep
    \/ AutoMatchEnd

SpecFrame == MatchInit /\ [][FrameNext]_vars

\* a step of the AutoMatch run
RunStep == hpc = "matching" \/ (hpc = "automatch" /\ hpc' = "matching")
\* the record fits the expense by one of the three strategies
FitsRule(txn, exp) ==
    CheckNumberMatch(txn, exp) \/ AmountDateMatch(txn, exp) \/ AmountVendorMatch(txn, exp)

\* C26 (AutoMatch frame): a step of a run leaves every record as it was or
\* turns an unmatched, unlinked record into a matched one with an expense
\* link and confidence auto_exact or auto_fuzzy, all other fields kept; a
\* record that was matched, ignored or created is never changed, and a
\* visited record that fits no candidate by any rule stays unmatched with no
\* link.
C26_AutoMatchFrame ==
    [][RunStep =>
         /\ Len(txns') = Len(txns)
         /\ expenses' = expenses
         /\ \A i \in 1..Len(txns) :
              \/ txns'[i] = txns[i]
              \/ /\ txns[i].matchStatus = "unmatched"
                 /\ txns[i].matchedExpenseId = 0
                 /\ txns'[i].matchedExpenseId # 0
                 /\ txns'[i].matchConfidence \in {"auto_exact", "auto_fuzzy"}
                 /\ txns'[i] = [txns[i] EXCEPT !.matchStatus = "matched",
                                               !.matchedExpenseId = txns'[i].matchedExpenseId,
                                               !.matchConfidence = txns'[i].matchConfidence]
         /\ (hpc = "matching" /\ am.transactions # <<>>) =>
              LET txn == Head(am.transactions) IN
              (\A k \in 1..Len(am.expenses) : ~FitsRule(txn, am.expenses[k])) =>
                  /\ txns' = txns
                  /\ TxnRow(txns', txn.id).matchStatus = "unmatched"
                  /\ TxnRow(txns', txn.id).matchedExpenseId = 0]_vars
\* the check was ignored before the run and fits the expense by amount and
\* date; the run has left it ignored and linked the card payment
C26_Witness ==
    /\ hpc = "idle"
    /\ Len(txns) = 2
    /\ txns[1].matchStatus = "ignored"
    /\ txns[1].matchedExpenseId = 0
    /\ txns[2].matchStatus = "matched"
    /\ txns[2].matchConfidence = "auto_fuzzy"
    /\ AmountDateMatch(txns[1], expenses[txns[2].matchedExpenseId])

\* C27 (match targets): a step of a run links only a record with a negative
\* amount whose type is not fee, and only to a paid expense; records with
\* amount zero or positive, fee records and the expenses are left as they
\* were.
C27_MatchTargets ==
    [][RunStep =>
         /\ expenses' = expenses
         /\ \A i \in 1..Len(txns) :
              /\ (txns[i].amount >= 0 \/ txns[i].transactionType = "fee") => txns'[i] = txns[i]
              /\ txns'[i].matchedExpenseId # txns[i].matchedExpenseId =>
                   /\ txns[i].amount < 0
                   /\ txns[i].transactionType # "fee"
                   /\ txns'[i].matchedExpenseId \in 1..Len(expenses)
                   /\ expenses[txns'[i].matchedExpenseId].status = "paid"]_vars
\* after the run: the check is unmatched though an unpaid expense has its
\* number, the fee is unmatched though a paid expense has its amount and day
C27_Witness ==
    /\ hpc = "idle"
    /\ Len(txns) = 2
    /\ Len(expenses) = 2
    /\ txns[1].transactionType = "check"
    /\ txns[1].matchStatus = "unmatched"
    /\ \E e \in 1..2 : expenses[e].status = "not_paid" /\ CheckNumberMatch(txns[1], expenses[e])
    /\ txns[2].transactionType = "fee"
    /\ txns[2].matchStatus = "unmatched"
    /\ \E e \in 1..2 : expenses[e].status = "paid"
                       /\ Abs(txns[2].amount) = expenses[e].amount
                       /\ expenses[e].datePaid = txns[2].postingDate

\* C28 (no amount tolerance): a step of a run that links a record with
\* confidence auto_fuzzy links it to an expense whose amount is the absolute
\* amount of the record, and either the expense's date paid is at most 3 days
\* from the posting date or the record's non-empty vendor hint is contained,
\* letter case apart, in the expense's vendor name.
C28_NoAmountTolerance ==
    [][RunStep =>
         \A i \in 1..Len(txns) :
            (txns'[i].matchedExpenseId # txns[i].matchedExpenseId
               /\ txns'[i].matchConfidence = "auto_fuzzy") =>
                LET exp == expenses[txns'[i].matchedExpenseId] IN
                /\ Abs(txns[i].amount) = exp.amount
                /\ \/ /\ exp.datePaid # NoDate
                      /\ DayNum(txns[i].postingDate) - DayNum(exp.datePaid) \in -3..3
                   \/ /\ txns[i].vendorHint # <<>>
                      /\ containsIgnoreCase(exp.vendorName, txns[i].vendorHint)]_vars
\* after the run: the card payment is linked by its vendor hint to an expense
\* paid weeks later, and an expense of one cent more, paid on the posting
\* date, is linked to nothing
C28_Witness ==
    /\ hpc = "idle"
    /\ Len(expenses) = 2
    /\ \E i \in 1..Len(txns), e, f \in 1..2 :
         /\ txns[i].matchedExpenseId = e
         /\ txns[i].matchConfidence = "auto_fuzzy"
         /\ DayNum(expenses[e].datePaid) - DayNum(txns[i].postingDate) > 3
         /\ expenses[f].amount = Abs(txns[i].amount) + 1
         /\ expenses[f].datePaid = txns[i].postingDate
         /\ \A k \in 1..Len(txns) : txns[k].matchedExpenseId # f

(***************************************************************************)
(* SpecLive: the worker of SpecWorker with no call of Worker.Stop and with *)
(* every handler invocation returning (a result, the extractor's error or  *)
(* the deadline's error); reparse requests enqueue further jobs behind the *)
(* one in progress.                                                        *)
(***************************************************************************)
\* The steps of the worker's goroutine
LiveRuns ==
    \/ WorkerClaim
    \/ ClaimUpdate(TheWorker)
    \/ ClaimCommit(TheWorker)
    \/ JobExtractFails
    \/ JobCancelled
    \/ JobParsed

LiveNext ==
    \/ WorkerSleep
    \/ WorkerClaim
    \/ ClaimUpdate(TheWorker)
    \/ ClaimCommit(TheWorker)
    \/ JobParsed
    \/ JobExtractFails
    \/ JobCancelled
    \/ ReconciliationsReparse

\* The goroutine of Worker.Start is scheduled as long as it can take a step.
SpecLive ==
    /\ WorkerInit
    /\ [][LiveNext]_vars
    /\ WF_vars(LiveRuns)

\* C29 (queue liveness): every enqueued job eventually has status completed
\* or failed, also when jobs ahead of it fail and are retried.
C29_QueueLiveness ==
    \A j \in 1..MaxJobs :
        (Len(jobs) >= j) ~> (Len(jobs) >= j /\ jobs[j].status \in {"completed", "failed"})
\* job 1 failed at its third attempt, the reparse job queued behind it is
\* completed
C29_Witness ==
    /\ Len(jobs) = 2
    /\ jobs[1].status = "failed"
    /\ errs[1] = 3
    /\ claims[2] > 0
    /\ jobs[2].status = "completed"

\* C30 (unmatch of a created record): the unmatch action leaves the record
\* unmatched with no link and empty confidence; when the record's status was
\* created the expense created from it is no longer in the ledger, when it
\* was matched the linked expense is kept.
C30_UnmatchCreated ==
    [][\A t \in TxnIds :
         ReconciliationsUnmatch(t) =>
            LET before == TxnRow(txns, t)
                after == TxnRow(txns', t)
            IN  /\ after.matchStatus = "unmatched"
                /\ after.matchedExpenseId = 0
                /\ after.matchConfidence = ""
                /\ (before.matchStatus = "created" /\ before.matchedExpenseId # 0) =>
                       ~ExpenseExists(expenses', before.matchedExpenseId)
                /\ (before.matchStatus = "matched" /\ before.matchedExpenseId # 0) =>
                       ExpenseExists(expenses', before.matchedExpenseId)]_vars
\* the same without the deletion of the created expense
UnmatchKeepsExpenses ==
    [][\A t \in TxnIds :
         ReconciliationsUnmatch(t) =>
            LET after == TxnRow(txns', t)
            IN  /\ after.matchStatus = "unmatched"
                /\ after.matchedExpenseId = 0
                /\ after.matchConfidence = ""
                /\ expenses' = expenses]_vars

====
